---- MODULE Spec2Model ----
(***************************************************************************)
(* The benchmark runner: its result cache (src/src/cache_manager.py), the  *)
(* execution harness run_agent and the orchestrator run_all                *)
(* (src/src/runner.py).                                                    *)
(*                                                                         *)
(* The result cache:                                                       *)
(* one durable JSON record per agent under results/, an in-memory          *)
(* dict of loaded partitions, and a lookup that serves an entry only while *)
(* the SHA-256 of the agent's agent.py and of the canonical task           *)
(* definition both equal the digests stored with the entry.                *)
(*                                                                         *)
(* Modelling decisions:                                                    *)
(*  - SHA-256 is an ideal hash: a digest is the tagged preimage, so two    *)
(*    digests are equal exactly when the hashed bytes are equal.           *)
(*  - task ids, field values and agent names are strings, as the type      *)
(*    annotations of the code say; on such data json.dumps followed by     *)
(*    json.loads gives back an equal dict.                                 *)
(*  - Spec is the program on a working file system.  SpecFault adds I/O    *)
(*    faults: a write that fails (leaving the old file, a truncated file,  *)
(*    or a file cut inside a multi-byte character), an unlink that fails,  *)
(*    and a record damaged from outside.                                   *)
(*  - SpecHarness is run_agent alone, invocation after invocation, and     *)
(*    SpecHarnessLive adds weak fairness of its steps.  SpecRunAll is      *)
(*    run_all over the cache on a working file system, with run_agent      *)
(*    reduced to the results it may return; a call may name one agent,    *)
(*    find an empty directory, or ignore the cache.  SpecRunAllFault adds  *)
(*    a write of the cache that fails and an agent that stalls, under weak *)
(*    fairness of run_all's steps.                                         *)
(*  - SpecRestore is Spec with edits that are taken back.  SpecCompat is   *)
(*    Spec with durable records written by another version of the program: *)
(*    a field left out, or another cache_version.                          *)
(*  - SpecRunAllDotted is run_all on agent directories a.1 and a.2, whose  *)
(*    names share the stem a.  SpecTwoManagers is two CacheManager         *)
(*    instances over one results directory, each with its own cache_data.  *)
(***************************************************************************)
EXTENDS Integers, Sequences, FiniteSets, TLC

VARIABLES
    artifact,   \* artifact[a]: the bytes of agents/<a>/agent.py
    bench,      \* bench[s]: the task definition loaded from task file s
    disk,       \* disk[a]: the durable record results/<a>.json
    cache_data, \* CacheManager.cache_data: the partitions loaded in memory
    ret,        \* the outcome of the last call of the cache API
    shadow,     \* history: per (agent, task id) what the last completed store was given
    fresh,      \* history: per (agent, task id) a store completed and nothing it covers changed since
    since_clear, \* history: whether clear_cache ran with no cache_result since, and the records it kept
    edits,      \* number of edits of artifacts and task definitions so far
    stores,     \* number of cache_result calls so far
    faults,     \* number of I/O faults so far
    run,        \* the invocation of run_agent in progress, or the last one
    clock,      \* time.time() in whole seconds
    sessions,   \* history: the session id of every invocation that reached the session
    orch,       \* the locals of run_all: its position in the matrix, counters, result set
    journal,    \* history: what run_all did, pair by pair
    peer        \* a second CacheManager over the same results directory: its cache_data
                \* and, as history, the stores it completed

cache_vars == <<artifact, bench, disk, cache_data, ret, shadow, fresh, since_clear, edits, stores, faults>>
harness_vars == <<run, clock, sessions>>
run_all_vars == <<orch, journal>>
vars == <<artifact, bench, disk, cache_data, ret, shadow, fresh, since_clear, edits, stores, faults,
          run, clock, sessions, orch, journal, peer>>

----------------------------------------------------------------------------
(* Bounds of the model *)

MaxEvents == 1   \* edits of artifacts and task definitions, and I/O faults, together
MaxStores == 2   \* calls of cache_result

----------------------------------------------------------------------------
(* The agents, the task files and what a task definition may hold *)

Agents == {"a1", "a2"}
InitialArtifact == <<0, 0>>
TaskFiles == {"s1", "s2"}
Bytes == {0, 1}
FieldValues == {"v0", "v1"}

\* The ids a task file may carry: distinct files never share an id.
IdChoices(s) == IF s = "s1" THEN {"t1", "t1b"} ELSE {"t2"}
TaskIds == UNION {IdChoices(s) : s \in TaskFiles}

RequiredFields == {"id", "name", "query", "expected_answer"}
ExtraFields == {"extra"}
Fields == RequiredFields \cup ExtraFields

\* The keys of a task definition in the order json.dumps(sort_keys=True) emits them.
SortedKeys == <<"expected_answer", "extra", "id", "name", "query">>

\* The task files as first discovered: s1 holds the required fields, s2 an extra one too.
InitialBenchmark(s) ==
    [k \in (IF s = "s1" THEN RequiredFields ELSE Fields) |->
        IF k = "id" THEN (IF s = "s1" THEN "t1" ELSE "t2") ELSE "v0"]

\* A result payload: the verdict and the error (None, or a string that may be empty).
NoneError == "<None>"
Results ==
    { [correct |-> TRUE, error |-> NoneError],
      [correct |-> TRUE, error |-> "E"],
      [correct |-> FALSE, error |-> ""] }
NoResult == [correct |-> FALSE, error |-> NoneError]

\* Python truthiness of result.get("error")
Truthy(e) == e # NoneError /\ e # ""

----------------------------------------------------------------------------
(* ContentHasher *)

CACHE_VERSION == "2.0"
READ_BLOCK == 4096
NoTimestamp == 0

Min(x, y) == IF x <= y THEN x ELSE y

Sha256New == [alg |-> "sha256", preimage |-> <<>>]
Sha256Update(h, block) == [h EXCEPT !.preimage = @ \o block]

RECURSIVE ReadBlocks(_, _, _)
ReadBlocks(content, pos, h) ==
    LET block == SubSeq(content, pos + 1, Min(pos + READ_BLOCK, Len(content)))
    IN  IF block = <<>> THEN h
        ELSE ReadBlocks(content, pos + Len(block), Sha256Update(h, block))

\* faulty variant: the digest covers how often the artifacts were edited
ComputeFileHashWithEditCount(content) == ReadBlocks(content \o <<edits>>, 0, Sha256New)

\* compute_file_hash: the digest of the whole file, read block by block
ComputeFileHash(content) == ReadBlocks(content, 0, Sha256New)

\* json.dumps(benchmark, sort_keys=True): the members in key order
RECURSIVE DumpsSorted(_, _)
DumpsSorted(b, i) ==
    IF i > Len(SortedKeys) THEN <<>>
    ELSE (IF SortedKeys[i] \in DOMAIN b THEN <<SortedKeys[i], b[SortedKeys[i]]>> ELSE <<>>)
         \o DumpsSorted(b, i + 1)

\* str.encode(): one code per token of the text
TokenCode(tok) ==
    CASE tok = "expected_answer" -> 1 [] tok = "extra" -> 2 [] tok = "id" -> 3
      [] tok = "name" -> 4 [] tok = "query" -> 5
      [] tok = "v0" -> 6 [] tok = "v1" -> 7
      [] tok = "t1" -> 8 [] tok = "t1b" -> 9 [] tok = "t2" -> 10
Encode(text) == [i \in 1..Len(text) |-> TokenCode(text[i])]

\* faulty variant: only the query is hashed
BenchmarkHashQueryOnly(b) == Sha256Update(Sha256New, Encode(<<"query", b["query"]>>))

\* hashlib.sha256(json.dumps(benchmark, sort_keys=True).encode()).hexdigest()
BenchmarkHash(b) == Sha256Update(Sha256New, Encode(DumpsSorted(b, 1)))

----------------------------------------------------------------------------
(* Partitions and durable records *)

ZeroSummary == [total |-> 0, correct |-> 0, incorrect |-> 0, errors |-> 0]

\* dict.get(key, default): the value, or the default (None) when the key is missing
GetOr(d, key, none) == IF key \in DOMAIN d THEN d[key] ELSE none

\* {}: the dict without keys
EmptyDict == [k \in {} |-> NoResult]

\* agent_cache.get("tasks", {}), lines 56, 99 and 152
TasksOf(data) == GetOr(data, "tasks", EmptyDict)

\* entry.get("agent_hash") of an entry that has no such key: None, equal to no digest
NoHash == [alg |-> "none", preimage |-> <<>>]

\* _empty_agent_cache
EmptyAgentCache(a) ==
    [agent_name |-> a, cache_version |-> CACHE_VERSION,
     tasks |-> [t \in {} |-> NoResult], summary |-> ZeroSummary,
     last_updated |-> NoTimestamp]

MissingFile(a) == [kind |-> "missing", data |-> EmptyAgentCache(a)]
DamagedFile(a, k) == [kind |-> k, data |-> EmptyAgentCache(a)]
\* json.dumps(data, indent=2, ensure_ascii=False) written as the file's text
JsonFile(data) == [kind |-> "json", data |-> data]

NotLoaded(a) == [loaded |-> FALSE, data |-> EmptyAgentCache(a)]
Loaded(data) == [loaded |-> TRUE, data |-> data]

\* faulty variant: the verdict is looked at before the error
BucketVerdictFirst(result) ==
    IF GetOr(result, "correct", FALSE) THEN "correct"
    ELSE IF Truthy(GetOr(result, "error", NoneError)) THEN "errors"
    ELSE "incorrect"

\* _recalculate_summary, lines 57-64: the bucket one entry's result is counted in
Bucket(result) ==
    IF Truthy(GetOr(result, "error", NoneError)) THEN "errors"
    ELSE IF GetOr(result, "correct", FALSE) THEN "correct"
    ELSE "incorrect"

\* _recalculate_summary, lines 56-64: the loop over the entries not yet counted
RECURSIVE SummaryLoop(_, _, _)
SummaryLoop(tasks, todo, summary) ==
    IF todo = {} THEN summary
    ELSE LET t == CHOOSE x \in todo : TRUE
             b == Bucket(GetOr(tasks[t], "result", EmptyDict))
         IN  SummaryLoop(tasks, todo \ {t},
                         [summary EXCEPT !.total = @ + 1, ![b] = @ + 1])

\* _recalculate_summary: the summary of a tasks map, counted from zero
RecalculateSummary(tasks) == SummaryLoop(tasks, DOMAIN tasks, ZeroSummary)

\* _load_agent_cache, lines 35-42: what reading the durable record gives.
\* A record that is not valid UTF-8 makes read_text raise UnicodeDecodeError,
\* which is neither a JSONDecodeError nor an OSError.
ReadRecord(a, file) ==
    CASE file.kind = "json" -> [raised |-> FALSE, data |-> file.data]
      [] file.kind = "missing" -> [raised |-> FALSE, data |-> EmptyAgentCache(a)]
      [] file.kind \in {"bad_json", "unreadable"} -> [raised |-> FALSE, data |-> EmptyAgentCache(a)]
      [] file.kind = "bad_utf8" -> [raised |-> TRUE, data |-> EmptyAgentCache(a)]

\* _load_agent_cache: the in-memory partition when there is one, else the record
LoadAgentCache(a) ==
    IF cache_data[a].loaded THEN [raised |-> FALSE, data |-> cache_data[a].data]
    ELSE ReadRecord(a, disk[a])

----------------------------------------------------------------------------
(* ResultCache: lookup and store *)

NoCall == [op |-> "none", agent |-> "-", task |-> "-", kind |-> "-", result |-> NoResult, total |-> 0]
Call(op, a, s, kind, result, total) ==
    [op |-> op, agent |-> a, task |-> s, kind |-> kind, result |-> result, total |-> total]

\* faulty variants: one of the two digests is not compared
HashesMatchAgentOnly(entry, agent_hash, benchmark_hash) ==
    GetOr(entry, "agent_hash", NoHash) = agent_hash
HashesMatchTaskOnly(entry, agent_hash, benchmark_hash) ==
    GetOr(entry, "benchmark_hash", NoHash) = benchmark_hash

\* faulty variant: a digest the entry does not have is not compared
HashesMatchWhenPresent(entry, agent_hash, benchmark_hash) ==
    /\ GetOr(entry, "agent_hash", agent_hash) = agent_hash
    /\ GetOr(entry, "benchmark_hash", benchmark_hash) = benchmark_hash

\* get_cached_result, lines 101-104: the comparison that decides reuse
HashesMatch(entry, agent_hash, benchmark_hash) ==
    /\ GetOr(entry, "agent_hash", NoHash) = agent_hash
    /\ GetOr(entry, "benchmark_hash", NoHash) = benchmark_hash

\* get_cached_result, lines 91-107, on the loaded partition: the result or None. An
\* entry without keys is falsy (line 100); cached_entry.get("result") is None when the
\* entry has no result
LookupIn(data, content, benchmark) ==
    LET task_id == benchmark["id"]
        tasks == TasksOf(data)
        none == [kind |-> "none", result |-> NoResult]
    IN  IF task_id \notin DOMAIN tasks \/ DOMAIN tasks[task_id] = {} THEN none
        ELSE IF HashesMatch(tasks[task_id], ComputeFileHash(content), BenchmarkHash(benchmark))
                /\ "result" \in DOMAIN tasks[task_id]
             THEN [kind |-> "result", result |-> tasks[task_id].result]
             ELSE none

\* cache_result, lines 124-130: the entry written for the task
NewEntry(content, benchmark, result, timestamp) ==
    [task_name |-> IF "name" \in DOMAIN benchmark THEN benchmark["name"] ELSE benchmark["id"],
     agent_hash |-> ComputeFileHash(content),
     benchmark_hash |-> BenchmarkHash(benchmark),
     timestamp |-> timestamp,
     result |-> result]

\* faulty variant: the tasks map is replaced instead of updated
StoreInForgettingOthers(data, content, benchmark, result, timestamp) ==
    LET tasks == [t \in {benchmark["id"]} |-> NewEntry(content, benchmark, result, timestamp)]
    IN  [data EXCEPT !.tasks = tasks,
                     !.last_updated = timestamp,
                     !.summary = RecalculateSummary(tasks)]

\* faulty variant: every entry of the partition is stamped with the time of the store
StoreInRestamping(data, content, benchmark, result, timestamp) ==
    LET task_id == benchmark["id"]
        tasks == [t \in DOMAIN TasksOf(data) \cup {task_id} |->
                    IF t = task_id THEN NewEntry(content, benchmark, result, timestamp)
                    ELSE [TasksOf(data)[t] EXCEPT !.timestamp = timestamp]]
    IN  [data EXCEPT !.tasks = tasks,
                     !.last_updated = timestamp,
                     !.summary = RecalculateSummary(tasks)]

\* cache_result, lines 124-132: the partition after the entry is set, last_updated
\* is updated and the summary is recomputed from all entries
StoreIn(data, content, benchmark, result, timestamp) ==
    LET task_id == benchmark["id"]
        tasks == [t \in DOMAIN TasksOf(data) \cup {task_id} |->
                    IF t = task_id THEN NewEntry(content, benchmark, result, timestamp)
                    ELSE TasksOf(data)[t]]
    IN  [k \in DOMAIN data \cup {"tasks", "last_updated", "summary"} |->
            CASE k = "tasks" -> tasks
              [] k = "last_updated" -> timestamp
              [] k = "summary" -> RecalculateSummary(tasks)
              [] OTHER -> data[k]]

\* how a write_text may end: done, refused before the file is opened, or broken off
\* after the file was truncated, between two characters or inside one
WriteOutcomes == {"ok", "fail_untouched", "fail_truncated", "fail_midchar"}

\* faulty variant: the write is left for later
WriteTextNotFlushed(a, old, data, w) == old

\* _save_agent_cache, line 52: the file after write_text, by the outcome of the write
WriteText(a, old, data, w) ==
    CASE w = "ok" -> JsonFile(data)
      [] w = "fail_untouched" -> old
      [] w = "fail_truncated" -> DamagedFile(a, "bad_json")
      [] w = "fail_midchar" -> DamagedFile(a, "bad_utf8")

NotCleared == [cleared |-> FALSE, kept |-> {}]

\* faulty variant: the exception of the write is swallowed
SaveOutcomeSwallowed(w) == "returned"

\* cache_result, line 133: no handler surrounds _save_agent_cache, so the call returns
\* when the write succeeded and the exception of write_text propagates otherwise
SaveOutcome(w) == IF w = "ok" THEN "returned" ELSE "raise"

AbsentShadow == [present |-> FALSE, content |-> <<>>, def |-> InitialBenchmark("s1"), result |-> NoResult]

\* get_cached_result(agent_path, benchmark)
GetCachedResult(a, s) ==
    LET ld == LoadAgentCache(a)
    IN  /\ IF ld.raised
           THEN /\ ret' = Call("lookup", a, s, "raise", NoResult, 0)
                /\ UNCHANGED cache_data
           ELSE LET found == LookupIn(ld.data, artifact[a], bench[s])
                IN  /\ ret' = Call("lookup", a, s, found.kind, found.result, 0)
                    /\ cache_data' = [cache_data EXCEPT ![a] = Loaded(ld.data)]
        /\ UNCHANGED <<artifact, bench, disk, shadow, fresh, since_clear, edits, stores, faults>>

\* cache_result(agent_path, benchmark, result, timestamp) whose write ends as w
CacheResultAt(a, s, result, timestamp, w) ==
    LET ld == LoadAgentCache(a)
        task_id == bench[s]["id"]
    IN  /\ since_clear' = NotCleared
        /\ IF ld.raised
           THEN /\ ret' = Call("store", a, s, "raise", result, 0)
                /\ UNCHANGED <<cache_data, disk, shadow, fresh>>
           ELSE LET data == StoreIn(ld.data, artifact[a], bench[s], result, timestamp)
                IN  /\ cache_data' = [cache_data EXCEPT ![a] = Loaded(data)]
                    /\ disk' = [disk EXCEPT ![a] = WriteText(a, @, data, w)]
                    /\ ret' = Call("store", a, s, SaveOutcome(w), result, 0)
                    /\ IF w = "ok"
                       THEN /\ shadow' = [shadow EXCEPT ![a][task_id] =
                                             [present |-> TRUE, content |-> artifact[a],
                                              def |-> bench[s], result |-> result]]
                            /\ fresh' = [fresh EXCEPT ![a][task_id] = TRUE]
                       ELSE /\ UNCHANGED shadow
                            /\ fresh' = [fresh EXCEPT ![a] = [t \in TaskIds |-> FALSE]]
        /\ UNCHANGED <<artifact, bench, edits>>

\* a call of cache_result by the cache's own client, stamped with the number of the call
CacheResultWriting(a, s, result, w) ==
    /\ stores < MaxStores
    /\ stores' = stores + 1
    /\ CacheResultAt(a, s, result, stores + 1, w)

CacheResult ==
    \E a \in Agents, s \in TaskFiles, result \in Results :
        /\ CacheResultWriting(a, s, result, "ok")
        /\ UNCHANGED faults
        /\ UNCHANGED <<harness_vars, run_all_vars, peer>>

\* cache_result whose durable write fails: the exception of write_text propagates
CacheResultFailing ==
    \E a \in Agents, s \in TaskFiles, result \in Results, w \in WriteOutcomes \ {"ok"} :
        /\ edits + faults < MaxEvents
        /\ faults' = faults + 1
        /\ CacheResultWriting(a, s, result, w)
        /\ UNCHANGED <<harness_vars, run_all_vars, peer>>

----------------------------------------------------------------------------
(* ResultCache: clear and stats *)

\* faulty variant: no record is removed
UnlinkedNothing(failing) == disk

\* clear_cache, lines 138-142: the records left when unlink fails for those of `failing`
Unlinked(failing) ==
    [a \in Agents |-> IF a \in failing THEN disk[a] ELSE MissingFile(a)]

\* clear_cache() during which unlink raises OSError for the records of `failing`
ClearCacheUnlinking(failing) ==
    /\ cache_data' = [a \in Agents |-> NotLoaded(a)]
    /\ disk' = Unlinked(failing)
    /\ ret' = Call("clear", "-", "-", "returned", NoResult, 0)
    /\ shadow' = [a \in Agents |-> [t \in TaskIds |-> AbsentShadow]]
    /\ fresh' = [a \in Agents |-> [t \in TaskIds |-> FALSE]]
    /\ since_clear' = [cleared |-> TRUE, kept |-> failing]
    /\ UNCHANGED <<artifact, bench, edits, stores>>

ClearCache ==
    /\ ClearCacheUnlinking({})
    /\ UNCHANGED faults
    /\ UNCHANGED <<harness_vars, run_all_vars, peer>>

ClearCacheFailing ==
    \E failing \in SUBSET {a \in Agents : disk[a].kind # "missing"} :
        /\ failing # {}
        /\ edits + faults < MaxEvents
        /\ faults' = faults + 1
        /\ ClearCacheUnlinking(failing)
        /\ UNCHANGED <<harness_vars, run_all_vars, peer>>

\* get_cache_stats, lines 148-152: what one record adds to total_cached
StatsOfRecord(file) ==
    CASE file.kind = "json" ->
            [raised |-> FALSE, count |-> Cardinality(DOMAIN TasksOf(file.data))]
      [] file.kind \in {"missing", "bad_json", "unreadable"} -> [raised |-> FALSE, count |-> 0]
      [] file.kind = "bad_utf8" -> [raised |-> TRUE, count |-> 0]

\* get_cache_stats, lines 146-152: the loop over results/*.json
RECURSIVE StatsLoop(_, _, _)
StatsLoop(files, todo, total) ==
    IF todo = {} THEN [raised |-> FALSE, count |-> total]
    ELSE LET a == CHOOSE x \in todo : TRUE
             one == StatsOfRecord(files[a])
         IN  IF one.raised THEN one
             ELSE StatsLoop(files, todo \ {a}, total + one.count)

\* get_cache_stats: total_cached over the records of the results directory
TotalCached(files, loaded) == StatsLoop(files, DOMAIN files, 0)

\* get_cache_stats()
GetCacheStatsCall ==
    LET st == TotalCached(disk, cache_data)
    IN  /\ ret' = Call("stats", "-", "-", IF st.raised THEN "raise" ELSE "returned", NoResult, st.count)
        /\ UNCHANGED <<artifact, bench, disk, cache_data, shadow, fresh, since_clear, edits, stores, faults>>

GetCacheStats ==
    /\ GetCacheStatsCall
    /\ UNCHANGED <<harness_vars, run_all_vars, peer>>

\* CacheManager.__init__: a new process starts with nothing loaded
Restart ==
    /\ \E a \in Agents : cache_data[a].loaded
    /\ cache_data' = [a \in Agents |-> NotLoaded(a)]
    /\ ret' = NoCall
    /\ UNCHANGED <<artifact, bench, disk, shadow, fresh, since_clear, edits, stores, faults>>
    /\ UNCHANGED <<harness_vars, run_all_vars, peer>>

----------------------------------------------------------------------------
(* A second CacheManager over the same results directory (a second runner   *)
(* process).  It shares the durable records and nothing else: its           *)
(* cache_data is its own.  The code takes no lock on a record.              *)

\* CacheManager.__init__ of the second instance: nothing loaded; as history, no store
NoPeer ==
    [cache_data |-> [a \in Agents |-> NotLoaded(a)],
     stored |-> [a \in Agents |-> [t \in TaskIds |-> AbsentShadow]]]

\* _load_agent_cache of the second instance: its own partition when it has one
PeerLoadAgentCache(a) ==
    IF peer.cache_data[a].loaded THEN [raised |-> FALSE, data |-> peer.cache_data[a].data]
    ELSE ReadRecord(a, disk[a])

\* the load step of the second instance: _load_agent_cache reads the record of an
\* agent it has not loaded, as get_cached_result and cache_result do first
PeerLoad ==
    \E a \in Agents :
        LET ld == PeerLoadAgentCache(a)
        IN  /\ ~peer.cache_data[a].loaded
            /\ ~ld.raised
            /\ peer' = [peer EXCEPT !.cache_data[a] = Loaded(ld.data)]
            /\ UNCHANGED <<cache_vars, harness_vars, run_all_vars>>

\* the store step of the second instance: cache_result on the partition it holds (read
\* now when it holds none), then _save_agent_cache writes that partition whole
PeerStore ==
    \E a \in Agents, s \in TaskFiles, result \in Results :
        LET ld == PeerLoadAgentCache(a)
            task_id == bench[s]["id"]
            data == StoreIn(ld.data, artifact[a], bench[s], result, stores + 1)
        IN  /\ stores < MaxStores
            /\ ~ld.raised
            /\ stores' = stores + 1
            /\ peer' = [peer EXCEPT !.cache_data[a] = Loaded(data),
                                    !.stored[a][task_id] =
                                        [present |-> TRUE, content |-> artifact[a],
                                         def |-> bench[s], result |-> result]]
            /\ disk' = [disk EXCEPT ![a] = WriteText(a, @, data, "ok")]
            /\ UNCHANGED <<artifact, bench, cache_data, ret, shadow, fresh, since_clear,
                           edits, faults>>
            /\ UNCHANGED <<harness_vars, run_all_vars>>

----------------------------------------------------------------------------
(* The environment: agent artifacts and task definitions change between calls *)

\* one byte of agents/<a>/agent.py is changed
EditArtifact ==
    \E a \in Agents, i \in 1..Len(InitialArtifact), b \in Bytes :
        /\ edits + faults < MaxEvents
        /\ b # artifact[a][i]
        /\ artifact' = [artifact EXCEPT ![a][i] = b]
        /\ fresh' = [fresh EXCEPT ![a] = [t \in TaskIds |-> FALSE]]
        /\ edits' = edits + 1
        /\ ret' = NoCall
        /\ UNCHANGED <<bench, disk, cache_data, shadow, since_clear, stores, faults>>
        /\ UNCHANGED <<harness_vars, run_all_vars, peer>>

\* the values field k of task file s may take
ValuesOf(s, k) == IF k = "id" THEN IdChoices(s) ELSE FieldValues

\* the fields of task file s that are edited: all of them in s1, the query and the
\* extra field in s2
EditableFields(s) == IF s = "s1" THEN Fields ELSE {"query"} \cup ExtraFields

Edited(s) ==
    /\ fresh' = [a \in Agents |-> [fresh[a] EXCEPT ![bench[s]["id"]] = FALSE]]
    /\ edits + faults < MaxEvents
    /\ edits' = edits + 1
    /\ ret' = NoCall
    /\ UNCHANGED <<artifact, disk, cache_data, shadow, since_clear, stores, faults>>
    /\ UNCHANGED <<harness_vars, run_all_vars, peer>>

\* one field of a task definition is given another value
EditTaskField ==
    \E s \in TaskFiles, k \in Fields, v \in FieldValues \cup TaskIds :
        /\ k \in DOMAIN bench[s] \cap EditableFields(s)
        /\ v \in ValuesOf(s, k)
        /\ v # bench[s][k]
        /\ bench' = [bench EXCEPT ![s][k] = v]
        /\ Edited(s)

\* an extra field is added to a task definition
AddTaskField ==
    \E s \in TaskFiles, k \in ExtraFields, v \in FieldValues :
        /\ k \in EditableFields(s) \ DOMAIN bench[s]
        /\ bench' = [bench EXCEPT ![s] = [x \in DOMAIN bench[s] \cup {k} |->
                                            IF x = k THEN v ELSE bench[s][x]]]
        /\ Edited(s)

\* an extra field is removed from a task definition
RemoveTaskField ==
    \E s \in TaskFiles, k \in ExtraFields :
        /\ k \in DOMAIN bench[s]
        /\ bench' = [bench EXCEPT ![s] = [x \in DOMAIN bench[s] \ {k} |-> bench[s][x]]]
        /\ Edited(s)

\* an edited agent.py is given back the content it had at first
RestoreArtifact ==
    \E a \in Agents :
        /\ artifact[a] # InitialArtifact
        /\ artifact' = [artifact EXCEPT ![a] = InitialArtifact]
        /\ ret' = NoCall
        /\ UNCHANGED <<bench, disk, cache_data, shadow, fresh, since_clear, edits, stores, faults>>
        /\ UNCHANGED <<harness_vars, run_all_vars, peer>>

\* an edited task file is given back the definition it had at first
RestoreTaskFile ==
    \E s \in TaskFiles :
        /\ bench[s] # InitialBenchmark(s)
        /\ bench' = [bench EXCEPT ![s] = InitialBenchmark(s)]
        /\ ret' = NoCall
        /\ UNCHANGED <<artifact, disk, cache_data, shadow, fresh, since_clear, edits, stores, faults>>
        /\ UNCHANGED <<harness_vars, run_all_vars, peer>>

\* the durable record of an agent is damaged from outside the program
DamageRecord ==
    \E a \in Agents, k \in {"bad_json", "unreadable"} :
        /\ edits + faults < MaxEvents
        /\ faults' = faults + 1
        /\ disk' = [disk EXCEPT ![a] = DamagedFile(a, k)]
        /\ fresh' = [fresh EXCEPT ![a] = [t \in TaskIds |-> FALSE]]
        /\ ret' = NoCall
        /\ UNCHANGED <<artifact, bench, cache_data, shadow, since_clear, edits, stores>>
        /\ UNCHANGED <<harness_vars, run_all_vars, peer>>

\* a mapping without the keys named
Without(d, keys) == [k \in DOMAIN d \ keys |-> d[k]]

\* the fields of a record and of an entry that another version of the program may
\* not write, and a schema version this one does not know
OptionalRecordFields == {"cache_version", "tasks", "summary", "last_updated"}
OptionalEntryFields == {"agent_hash", "benchmark_hash", "result"}
UnknownVersion == "3.0"

\* what another version may have written in place of a record of this one: a field
\* left out, another cache_version, or a field of one entry left out
ForeignRecords(data) ==
    {Without(data, {f}) : f \in OptionalRecordFields}
    \cup {[data EXCEPT !.cache_version = UnknownVersion]}
    \cup {[data EXCEPT !.tasks[t] = Without(@, {f})] :
             t \in DOMAIN data.tasks, f \in OptionalEntryFields}

\* the durable record of an agent is rewritten by another version of the program
ForeignRecord ==
    \E a \in Agents :
        /\ edits + faults < MaxEvents
        /\ disk[a].kind = "json"
        /\ \E data \in ForeignRecords(disk[a].data) :
              disk' = [disk EXCEPT ![a] = JsonFile(data)]
        /\ faults' = faults + 1
        /\ fresh' = [fresh EXCEPT ![a] = [t \in TaskIds |-> FALSE]]
        /\ ret' = NoCall
        /\ UNCHANGED <<artifact, bench, cache_data, shadow, since_clear, edits, stores>>
        /\ UNCHANGED <<harness_vars, run_all_vars, peer>>

----------------------------------------------------------------------------
(* ExecutionHarness: run_agent (src/src/runner.py, lines 76-229)           *)
(*                                                                         *)
(* Modelling decisions:                                                    *)
(*  - a text is a sequence of characters; the agent's events come from a   *)
(*    small set of usage records and contents;                             *)
(*  - a part carries at most one payload (the text or the code-execution   *)
(*    result), as google.genai's Part requires;                            *)
(*  - a failure is an instance of Exception. KeyboardInterrupt and         *)
(*    SystemExit derive from BaseException only: they ask the process to   *)
(*    stop, and `except Exception` lets them through;                      *)
(*  - the clock counts whole seconds; when it moves, it moves past the     *)
(*    timeout in one step.                                                 *)
(***************************************************************************)

MaxInvocations == 2   \* invocations of run_agent
MaxStreamLen == 2     \* events of one invocation's stream
MaxClock == 61        \* the last second the clock reaches

\* run_agent's default for its `timeout` parameter, in seconds
DefaultTimeout == 60

Chars == {" ", "x"}
IsSpace(c) == c = " "
EmptyText == <<>>

\* str.strip(): leading and trailing whitespace removed
RECURSIVE LStrip(_)
LStrip(s) == IF s # <<>> /\ IsSpace(Head(s)) THEN LStrip(Tail(s)) ELSE s
RECURSIVE RStrip(_)
RStrip(s) == IF s # <<>> /\ IsSpace(s[Len(s)]) THEN RStrip(SubSeq(s, 1, Len(s) - 1)) ELSE s
Strip(s) == RStrip(LStrip(s))

\* "".join(response_parts)
RECURSIVE Join(_)
Join(parts) == IF parts = <<>> THEN EmptyText ELSE Head(parts) \o Join(Tail(parts))

\* an absent token count (None)
NoneCount == -1

\* usage_metadata of an event: absent, or four counts each of which may be None
NoUsage ==
    [present |-> FALSE, prompt_token_count |-> NoneCount,
     tool_use_prompt_token_count |-> NoneCount,
     candidates_token_count |-> NoneCount, thoughts_token_count |-> NoneCount]
Usage(p, t, c, th) ==
    [present |-> TRUE, prompt_token_count |-> p, tool_use_prompt_token_count |-> t,
     candidates_token_count |-> c, thoughts_token_count |-> th]

\* a part of a content: its text and the output of its code-execution result, an empty
\* text standing for None or ""
TextPart(t) == [text |-> t, code_output |-> EmptyText]
CodeResultPart(o) == [text |-> EmptyText, code_output |-> o]
OtherPart == [text |-> EmptyText, code_output |-> EmptyText]

\* the content of an event: None, a string, or an object with parts
NoContent == [kind |-> "none", text |-> EmptyText, parts |-> <<>>]
StrContent(t) == [kind |-> "str", text |-> t, parts |-> <<>>]
PartsContent(ps) == [kind |-> "parts", text |-> EmptyText, parts |-> ps]
Event(usage_metadata, content) == [usage_metadata |-> usage_metadata, content |-> content]

\* the events an agent's stream is made of
Events ==
    { Event(NoUsage, NoContent),
      Event(NoUsage, StrContent(<<" ", "x">>)),
      Event(Usage(1, NoneCount, 2, 1),
            PartsContent(<<TextPart(<<"x", " ">>), CodeResultPart(<<"x">>)>>)),
      Event(Usage(0, 1, NoneCount, NoneCount),
            PartsContent(<<CodeResultPart(<<" ">>), OtherPart, TextPart(<<"x">>)>>)),
      Event(Usage(1, NoneCount, 2, 1), NoContent) }

\* the exceptions a step of run_agent may meet; str(e) is the message
Exc(class, type, message) == [class |-> class, type |-> type, message |-> message]
NoExc == Exc("-", "-", "")
LoadFailures ==
    { Exc("Exception", "FileNotFoundError", "No such file or directory: agent.py"),
      Exc("Exception", "SyntaxError", "invalid syntax"),
      Exc("Exception", "AttributeError", "module has no attribute root_agent"),
      Exc("Exception", "RuntimeError", "") }
SessionFailures == {Exc("Exception", "ValueError", "session")}
StreamFailures == {Exc("Exception", "ServerError", "503")}
KeyboardInterrupt == Exc("BaseException", "KeyboardInterrupt", "")

\* str(e)
Str(e) == e.message

\* run_agent, lines 206-214: the dict returned when the stream completed
SuccessResult(response, token_usage, execution_time) ==
    [output |-> IF response # EmptyText THEN Strip(response) ELSE EmptyText,
     stderr |-> NoneError,
     execution_time |-> execution_time,
     success |-> TRUE,
     returncode |-> 0,
     input_tokens |-> token_usage.prompt_token_count,
     output_tokens |-> token_usage.candidates_token_count]

\* run_agent, lines 220-229: the dict returned by the handler of Exception
FailureResult(e, execution_time) ==
    [output |-> EmptyText,
     execution_time |-> execution_time,
     success |-> FALSE,
     error |-> Str(e),
     input_tokens |-> NoneCount,
     output_tokens |-> NoneCount]

\* faulty variant: only ImportError and its kin are handled
CaughtLoadErrorsOnly(e) == e.type \in {"FileNotFoundError", "SyntaxError"}

\* run_agent, line 220: `except Exception`
Caught(e) == e.class = "Exception"

\* Python truthiness of a token count: neither None nor 0
TruthyCount(n) == n # NoneCount /\ n # 0

\* faulty variant: the auxiliary prompt tokens and the thoughts are not added
CountUsagePromptAndCandidatesOnly(tokens, event) ==
    LET u == event.usage_metadata
    IN  IF ~u.present THEN tokens
        ELSE [prompt_token_count |-> tokens.prompt_token_count +
                  (IF TruthyCount(u.prompt_token_count) THEN u.prompt_token_count ELSE 0),
              candidates_token_count |-> tokens.candidates_token_count +
                  (IF TruthyCount(u.candidates_token_count) THEN u.candidates_token_count ELSE 0)]

\* run_agent_async, lines 140-165: the running totals after one event
CountUsage(tokens, event) ==
    LET u == event.usage_metadata
    IN  IF ~u.present THEN tokens
        ELSE [prompt_token_count |-> tokens.prompt_token_count +
                  (IF TruthyCount(u.prompt_token_count) THEN u.prompt_token_count ELSE 0) +
                  (IF TruthyCount(u.tool_use_prompt_token_count)
                   THEN u.tool_use_prompt_token_count ELSE 0),
              candidates_token_count |-> tokens.candidates_token_count +
                  (IF TruthyCount(u.candidates_token_count) THEN u.candidates_token_count ELSE 0) +
                  (IF TruthyCount(u.thoughts_token_count) THEN u.thoughts_token_count ELSE 0)]

\* run_agent_async, lines 177-184: what one part appends to response_parts
ExtractPart(part) ==
    IF part.text # EmptyText THEN <<part.text>>
    ELSE IF part.code_output # EmptyText THEN <<part.code_output>>
    ELSE <<>>

\* run_agent_async, lines 172-188: the loop over the parts of a content
RECURSIVE ExtractParts(_)
ExtractParts(parts) ==
    IF parts = <<>> THEN <<>> ELSE ExtractPart(Head(parts)) \o ExtractParts(Tail(parts))

\* faulty variant: the outputs of code-execution results are left out
ExtractTextOnly(response_parts, event) ==
    LET c == event.content
    IN  IF c.kind = "str" THEN Append(response_parts, c.text)
        ELSE IF c.kind = "parts"
             THEN response_parts \o SelectSeq([i \in 1..Len(c.parts) |-> c.parts[i].text],
                                              LAMBDA t : t # EmptyText)
             ELSE response_parts

\* run_agent_async, lines 167-188: response_parts after one event
Extract(response_parts, event) ==
    LET c == event.content
    IN  IF c.kind = "str" THEN Append(response_parts, c.text)
        ELSE IF c.kind = "parts" THEN response_parts \o ExtractParts(c.parts)
        ELSE response_parts

\* run_agent_async, lines 130-133: the locals before the first event
ZeroTokens == [prompt_token_count |-> 0, candidates_token_count |-> 0]

\* no invocation yet
IdleRun ==
    [pc |-> "idle", n |-> 0, agent |-> "-", start_time |-> 0, loads |-> 0,
     events |-> <<>>, response_parts |-> <<>>, tokens |-> ZeroTokens,
     stalled |-> FALSE, raised |-> NoExc, raised_at |-> "-",
     result |-> FailureResult(NoExc, 0)]

InProgress == run.pc \in {"loading", "session", "streaming"}

\* run_agent(agent_path, query): line 83, start_time is taken
Invoke ==
    \E a \in Agents :
        /\ ~InProgress
        /\ run.n < MaxInvocations
        /\ run' = [IdleRun EXCEPT !.pc = "loading", !.n = run.n + 1, !.agent = a,
                                  !.start_time = clock]
        /\ UNCHANGED <<clock, sessions, cache_vars, run_all_vars, peer>>

\* lines 220-229 and the propagation past them: the invocation r after e is raised
Raised(r, e, at) ==
    IF Caught(e)
    THEN [r EXCEPT !.pc = "returned", !.raised = e, !.raised_at = at,
                   !.result = FailureResult(e, clock - r.start_time)]
    ELSE [r EXCEPT !.pc = "propagated", !.raised = e, !.raised_at = at]

\* lines 96-103: the module is loaded and root_agent is read
LoadAgent ==
    /\ run.pc = "loading"
    /\ \/ run' = [run EXCEPT !.pc = "session", !.loads = @ + 1]
       \/ \E e \in LoadFailures : run' = Raised([run EXCEPT !.loads = @ + 1], e, "load")
    /\ UNCHANGED <<clock, sessions, cache_vars, run_all_vars, peer>>

\* line 113: f"session_{agent_name}_{int(time.time())}"
SessionId(agent_name, now) == <<"session", agent_name, now>>

\* lines 107-127: the runner is built, the session id is formed and the session created
CreateSession ==
    /\ run.pc = "session"
    /\ sessions' = Append(sessions, SessionId(run.agent, clock))
    /\ \/ run' = [run EXCEPT !.pc = "streaming",
                             !.response_parts = <<>>, !.tokens = ZeroTokens]
       \/ \E e \in SessionFailures : run' = Raised(run, e, "session")
    /\ UNCHANGED <<clock, cache_vars, run_all_vars, peer>>

\* lines 135-188: one event of the stream is consumed
NextEvent ==
    \E event \in Events :
        /\ run.pc = "streaming"
        /\ ~run.stalled
        /\ Len(run.events) < MaxStreamLen
        /\ run' = [run EXCEPT !.events = Append(@, event),
                              !.tokens = CountUsage(@, event),
                              !.response_parts = Extract(@, event)]
        /\ UNCHANGED <<clock, sessions, cache_vars, run_all_vars, peer>>

\* lines 194-214: the stream is exhausted and the result is returned
StreamEnds ==
    /\ run.pc = "streaming"
    /\ ~run.stalled
    /\ run' = [run EXCEPT !.pc = "returned",
                          !.result = SuccessResult(Join(run.response_parts), run.tokens,
                                                   clock - run.start_time)]
    /\ UNCHANGED <<clock, sessions, cache_vars, run_all_vars, peer>>

\* the stream raises instead of giving its next event
StreamRaises ==
    \E e \in StreamFailures :
        /\ run.pc = "streaming"
        /\ ~run.stalled
        /\ run' = Raised(run, e, "stream")
        /\ UNCHANGED <<clock, sessions, cache_vars, run_all_vars, peer>>

\* the agent stops producing: the stream neither gives an event nor ends nor raises
AgentStalls ==
    /\ run.pc = "streaming"
    /\ ~run.stalled
    /\ run' = [run EXCEPT !.stalled = TRUE]
    /\ UNCHANGED <<clock, sessions, cache_vars, run_all_vars, peer>>

\* the user interrupts the process while the invocation is in progress
Interrupt ==
    /\ InProgress
    /\ run' = Raised(run, KeyboardInterrupt, run.pc)
    /\ UNCHANGED <<clock, sessions, cache_vars, run_all_vars, peer>>

\* time passes
Tick ==
    /\ clock + DefaultTimeout + 1 <= MaxClock
    /\ clock' = clock + DefaultTimeout + 1
    /\ UNCHANGED <<run, sessions, cache_vars, run_all_vars, peer>>

\* the steps run_agent takes by itself once invoked
HarnessStep ==
    \/ LoadAgent
    \/ CreateSession
    \/ NextEvent
    \/ StreamEnds
    \/ StreamRaises

HarnessNext ==
    \/ Invoke
    \/ HarnessStep
    \/ AgentStalls
    \/ Interrupt
    \/ Tick

----------------------------------------------------------------------------
(* Orchestrator: run_all (src/src/runner.py, lines 231-349) and the        *)
(* evaluator it calls (src/src/evaluator.py)                               *)
(***************************************************************************)

\* the text of a field value of a task definition
TextOf(v) == IF v = "v0" THEN <<"x">> ELSE <<"x", "x">>

\* `needle in text` for two strings
Contains(text, needle) ==
    \E i \in 0..Len(text) :
        /\ i + Len(needle) <= Len(text)
        /\ SubSeq(text, i + 1, i + Len(needle)) = needle

\* evaluate_result, lines 78-110: the verdict. For texts without path separators and
\* without a FOUND:/PATH: prefix, paths_match is equality of the stripped texts, which
\* the containment test covers.
EvaluateResult(agent_output, expected_answer, execution_success) ==
    IF ~execution_success THEN [correct |-> FALSE]
    ELSE IF Strip(agent_output) = EmptyText THEN [correct |-> FALSE]
    ELSE [correct |-> Strip(agent_output) = Strip(expected_answer)
                      \/ Contains(agent_output, expected_answer)]

\* run_all, lines 303-311: the record assembled for a pair that was executed
AssembleTaskResult(run_result, evaluation, benchmark) ==
    [correct |-> evaluation.correct,
     execution_time |-> run_result.execution_time,
     agent_output |-> run_result.output,
     expected_answer |-> benchmark["expected_answer"],
     input_tokens |-> GetOr(run_result, "input_tokens", NoneCount),
     output_tokens |-> GetOr(run_result, "output_tokens", NoneCount),
     error |-> GetOr(run_result, "error", NoneError)]

\* faulty variant: a failed execution is always an error
SummaryBucketByVerdictOnly(task_result) ==
    IF task_result.correct THEN "correct" ELSE "incorrect"

\* run_all, lines 329-334: the bucket of the run summary a result is counted in
SummaryBucket(task_result) ==
    IF Truthy(task_result.error) THEN "errors"
    ELSE IF task_result.correct THEN "correct"
    ELSE "incorrect"

\* run_all, lines 295-311: the record of a pair from what run_agent returned
TaskResultOf(run_result, benchmark) ==
    AssembleTaskResult(run_result,
                       EvaluateResult(run_result.output, TextOf(benchmark["expected_answer"]),
                                      run_result.success),
                       benchmark)

MaxRuns == 2   \* calls of run_all

\* the order of names that sorted() uses: the rank of a directory or file name
NameKey(x) == IF x \in {"a1", "s1"} THEN 1 ELSE 2

\* the orders in which a directory listing may give the names of S
Listings(S) ==
    {seq \in [1..Cardinality(S) -> S] : \A i, j \in DOMAIN seq : i # j => seq[i] # seq[j]}

\* faulty variant: the listing is used as the file system gave it
SortedAsListed(seq) == seq

RECURSIVE Insert(_, _)
Insert(x, seq) ==
    IF seq = <<>> THEN <<x>>
    ELSE IF NameKey(x) <= NameKey(Head(seq)) THEN <<x>> \o seq
    ELSE <<Head(seq)>> \o Insert(x, Tail(seq))

\* sorted(...): load_agents sorts by path.name, load_benchmarks the globbed files
RECURSIVE Sorted(_)
Sorted(seq) == IF seq = <<>> THEN <<>> ELSE Insert(Head(seq), Sorted(Tail(seq)))

\* run_all is called without a filter
NoSelection == "<all>"

\* what a caller may pass as selected_agent: nothing, an agent, a name no directory has
Selections == {NoSelection} \cup Agents \cup {"a9"}

\* what the agent directory and the task directory may hold when a run starts
AgentSources == {Agents, {}}
TaskSources == {TaskFiles, {}}

Range(seq) == {seq[k] : k \in DOMAIN seq}

\* faulty variant: the filter is ignored and every agent is returned
LoadAgentsUnfiltered(listing, selected_agent) == Sorted(listing)

\* load_agents, lines 43-60, when it returns: the agent directories sorted by name,
\* or the one directory that selected_agent names
LoadAgents(listing, selected_agent) ==
    IF selected_agent = NoSelection THEN Sorted(listing) ELSE <<selected_agent>>

\* load_agents, lines 47-48 and 54-58: the ValueError it raises, if any
LoadAgentsError(listing, selected_agent) ==
    IF listing = <<>> THEN "No agent directories found"
    ELSE IF selected_agent # NoSelection /\ selected_agent \notin Range(listing)
         THEN "Unknown agent"
    ELSE NoneError

\* load_benchmarks, lines 64-74, when it returns: the task files in sorted order
LoadBenchmarks(listing) == Sorted(listing)

\* load_benchmarks, lines 72-73: the ValueError it raises, if any
LoadBenchmarksError(listing) ==
    IF listing = <<>> THEN "No benchmark files found" ELSE NoneError

\* faulty variant: an empty task directory is not an error
ConfigErrorOfAgentsOnly(agent_listing, selected_agent, task_listing) ==
    LoadAgentsError(agent_listing, selected_agent)

\* run_all, lines 238-239: agents are loaded first, then the tasks
ConfigError(agent_listing, selected_agent, task_listing) ==
    IF LoadAgentsError(agent_listing, selected_agent) # NoneError
    THEN LoadAgentsError(agent_listing, selected_agent)
    ELSE LoadBenchmarksError(task_listing)

\* what run_agent may return for a pair: a completed stream with an answer or with no
\* text, or a failure whose exception has a message or has none
RunResults ==
    { SuccessResult(<<"x">>, ZeroTokens, 0),
      SuccessResult(EmptyText, ZeroTokens, 0),
      FailureResult(Exc("Exception", "ServerError", "503"), 0),
      FailureResult(Exc("Exception", "RuntimeError", ""), 0) }

\* run_all, lines 265-273: the record of an agent before its first task
EmptyAgentResults == [tasks |-> [t \in {} |-> NoResult], summary |-> ZeroSummary]

\* run_all has not been called
IdleOrch ==
    [pc |-> "idle", run_no |-> 0, ignore_cache |-> FALSE,
     selected_agent |-> NoSelection, error |-> NoneError, naming |-> "plain",
     agents |-> <<>>, benchmarks |-> <<>>, i |-> 1, j |-> 1, timestamp |-> 0,
     cached_result |-> NoResult, run_result |-> FailureResult(NoExc, 0),
     task_result |-> NoResult, cache_hits |-> 0, cache_misses |-> 0,
     results |-> [a \in {} |-> EmptyAgentResults]]

\* no earlier run is remembered
NoPrevious ==
    [ended |-> "never", ignore_cache |-> FALSE, selected_agent |-> NoSelection,
     results |-> [a \in {} |-> EmptyAgentResults],
     artifact |-> [a \in Agents |-> InitialArtifact], bench |-> [s \in TaskFiles |-> InitialBenchmark(s)]]

\* the history of the current run: the pairs recorded, the calls made for the pair in
\* progress, the pairs whose processing has begun and not ended, whether a store of
\* this run replaced an entry of the other verdict, the artifacts and task files as
\* they were when the run started, and the run before it when this one uses the cache
NoJournal ==
    [processed |-> <<>>, calls |-> <<>>, hit |-> FALSE, hits_before |-> 0, misses_before |-> 0,
     open |-> {}, replaced |-> FALSE, artifact |-> [a \in Agents |-> InitialArtifact],
     bench |-> [s \in TaskFiles |-> InitialBenchmark(s)], previous |-> NoPrevious]

CurrentAgent == orch.agents[orch.i]
CurrentTask == orch.benchmarks[orch.j]

\* run_all is not running: it was never called, has returned or has raised
BetweenRuns == orch.pc \in {"idle", "done", "raised"}

\* what is remembered of the run that ended when the next one starts
Remembered ==
    [ended |-> orch.pc, ignore_cache |-> orch.ignore_cache,
     selected_agent |-> orch.selected_agent, results |-> orch.results,
     artifact |-> journal.artifact, bench |-> journal.bench]

\* run_all, lines 238-259, for the arguments and directory listings of one call:
\* agents and tasks are loaded, and an error of either ends the call there; else the
\* stats are read, the result set and the counters are initialised
StartRunAllNamed(naming, ignore_cache, selected_agent, agent_listing, task_listing) ==
    LET error == ConfigError(agent_listing, selected_agent, task_listing)
    IN  /\ BetweenRuns
        /\ orch.run_no < MaxRuns
        /\ journal' = [NoJournal EXCEPT !.artifact = artifact, !.bench = bench,
                                        !.previous = IF orch.pc = "idle" \/ ignore_cache
                                                     THEN NoPrevious
                                                     ELSE Remembered]
        /\ IF error # NoneError
           THEN /\ orch' = [IdleOrch EXCEPT !.pc = "raised", !.run_no = orch.run_no + 1,
                                            !.ignore_cache = ignore_cache,
                                            !.selected_agent = selected_agent,
                               !.naming = naming,
                                            !.error = error]
                /\ UNCHANGED <<cache_vars, harness_vars, peer>>
           ELSE /\ GetCacheStatsCall
                /\ clock' = clock + 1
                /\ orch' = [IdleOrch EXCEPT
                               !.pc = IF ret'.kind = "raise" THEN "raised" ELSE "agent",
                               !.error = IF ret'.kind = "raise" THEN "UnicodeDecodeError"
                                         ELSE NoneError,
                               !.run_no = orch.run_no + 1,
                               !.ignore_cache = ignore_cache,
                               !.selected_agent = selected_agent,
                               !.naming = naming,
                               !.agents = LoadAgents(agent_listing, selected_agent),
                               !.benchmarks = LoadBenchmarks(task_listing),
                               !.timestamp = clock']
                /\ UNCHANGED <<run, sessions, peer>>

\* run_all on agent directories whose names have no dot
StartRunAllWith(ignore_cache, selected_agent, agent_listing, task_listing) ==
    StartRunAllNamed("plain", ignore_cache, selected_agent, agent_listing, task_listing)

\* run_all is called: the mode the runner was built with, the filter, and what the two
\* directories hold and in which order the file system lists it
StartRunAll ==
    \E ignore_cache \in BOOLEAN, selected_agent \in Selections,
       agent_source \in AgentSources, task_source \in TaskSources :
        \E agent_listing \in Listings(agent_source), task_listing \in Listings(task_source) :
            StartRunAllWith(ignore_cache, selected_agent, agent_listing, task_listing)

\* path.name of the directory of an agent: as the agent is called here, or, with
\* dotted names, a.1 for a1 and a.2 for a2
DirName(naming, a) ==
    IF naming = "dotted" THEN (IF a = "a1" THEN "a.1" ELSE "a.2") ELSE a

\* faulty variant: the whole name is the stem
StemKeepingSuffix(name) == name

\* PurePath.stem: the name without its last suffix
Stem(name) == IF name \in {"a.1", "a.2"} THEN "a" ELSE name

\* run_all, line 262: agent_name = agent_path.stem, the key of the agent in the result set
ResultKey == Stem(DirName(orch.naming, CurrentAgent))

\* run_all, lines 261-273: the next agent's record is created
BeginAgent ==
    /\ orch.pc = "agent"
    /\ orch.i <= Len(orch.agents)
    /\ orch' = [orch EXCEPT !.pc = "pair", !.j = 1,
                            !.results = [a \in DOMAIN orch.results \cup {ResultKey} |->
                                            IF a = ResultKey THEN EmptyAgentResults
                                            ELSE orch.results[a]]]
    /\ UNCHANGED <<journal, cache_vars, harness_vars, peer>>

\* faulty variant: the lookup is made whatever the mode
LookupPairInEveryMode ==
    /\ orch.pc = "pair"
    /\ GetCachedResult(CurrentAgent, CurrentTask)
    /\ journal' = [journal EXCEPT !.calls = IF orch.ignore_cache THEN <<>> ELSE <<"lookup">>,
                                  !.open = @ \cup {<<CurrentAgent, CurrentTask>>},
                                  !.hit = (ret'.kind = "result"),
                                  !.hits_before = orch.cache_hits,
                                  !.misses_before = orch.cache_misses]
    /\ orch' = [orch EXCEPT !.pc = IF ret'.kind = "result" THEN "hit" ELSE "run",
                            !.cached_result = ret'.result]
    /\ UNCHANGED <<harness_vars, peer>>

\* run_all, lines 275-283: the lookup that opens a pair
LookupPair ==
    /\ orch.pc = "pair"
    /\ IF orch.ignore_cache
       THEN /\ orch' = [orch EXCEPT !.pc = "run", !.cached_result = NoResult]
            /\ journal' = [journal EXCEPT !.calls = <<>>, !.hit = FALSE,
                                          !.open = @ \cup {<<CurrentAgent, CurrentTask>>},
                                          !.hits_before = orch.cache_hits,
                                          !.misses_before = orch.cache_misses]
            /\ UNCHANGED cache_vars
       ELSE /\ GetCachedResult(CurrentAgent, CurrentTask)
            /\ journal' = [journal EXCEPT !.calls = <<"lookup">>,
                                          !.open = @ \cup {<<CurrentAgent, CurrentTask>>},
                                          !.hit = (ret'.kind = "result"),
                                          !.hits_before = orch.cache_hits,
                                          !.misses_before = orch.cache_misses]
            /\ orch' = [orch EXCEPT
                           !.pc = CASE ret'.kind = "raise" -> "raised"
                                    [] ret'.kind = "result" -> "hit"
                                    [] OTHER -> "run",
                           !.error = IF ret'.kind = "raise" THEN "UnicodeDecodeError"
                                     ELSE NoneError,
                           !.cached_result = ret'.result]
    /\ UNCHANGED <<harness_vars, peer>>

\* faulty variant: a reused result is counted as a new execution
ReuseCachedCountedAsMiss ==
    /\ orch.pc = "hit"
    /\ orch' = [orch EXCEPT !.pc = "record", !.task_result = orch.cached_result,
                            !.cache_misses = @ + 1]
    /\ UNCHANGED <<journal, cache_vars, harness_vars, peer>>

\* run_all, lines 284-291: the cached result is reused
ReuseCached ==
    /\ orch.pc = "hit"
    /\ orch' = [orch EXCEPT !.pc = "record", !.task_result = orch.cached_result,
                            !.cache_hits = @ + 1]
    /\ UNCHANGED <<journal, cache_vars, harness_vars, peer>>

\* run_all, line 295: run_agent is called and returns
RunPair ==
    \E run_result \in RunResults :
        /\ orch.pc = "run"
        /\ orch' = [orch EXCEPT !.pc = "evaluate", !.run_result = run_result]
        /\ journal' = [journal EXCEPT !.calls = Append(@, "run_agent")]
        /\ UNCHANGED <<cache_vars, harness_vars, peer>>

\* run_all, lines 298-311: the evaluator is called and the record is assembled
EvaluatePair ==
    /\ orch.pc = "evaluate"
    /\ orch' = [orch EXCEPT !.pc = "store",
                            !.task_result = TaskResultOf(orch.run_result, bench[CurrentTask])]
    /\ journal' = [journal EXCEPT !.calls = Append(@, "evaluate_result")]
    /\ UNCHANGED <<cache_vars, harness_vars, peer>>

\* the durable record of the current agent holds, under the current task's id, an
\* entry whose verdict is not the one about to be stored
ReplacesOtherVerdict ==
    LET id == bench[CurrentTask]["id"]
        record == disk[CurrentAgent]
    IN  /\ record.kind = "json"
        /\ id \in DOMAIN record.data.tasks
        /\ record.data.tasks[id].result.correct # orch.task_result.correct

\* faulty variant: the miss is counted and the record is not stored
StorePairCountingOnly ==
    /\ orch.pc = "store"
    /\ orch' = [orch EXCEPT !.pc = "record", !.cache_misses = @ + 1]
    /\ journal' = [journal EXCEPT !.calls = Append(@, "cache_result")]
    /\ UNCHANGED <<cache_vars, harness_vars, peer>>

\* run_all, lines 314-322: the record is stored and the miss is counted
StorePair ==
    /\ orch.pc = "store"
    /\ CacheResultAt(CurrentAgent, CurrentTask, orch.task_result, orch.timestamp, "ok")
    /\ orch' = [orch EXCEPT !.pc = "record", !.cache_misses = @ + 1]
    /\ journal' = [journal EXCEPT !.calls = Append(@, "cache_result"),
                                  !.replaced = @ \/ ReplacesOtherVerdict]
    /\ UNCHANGED <<stores, faults, harness_vars, peer>>

\* run_all, lines 314-317: the write of the record fails; cache_result raises the
\* OSError and run_all, which has no handler around the call, raises it too
StorePairFailing ==
    \E w \in WriteOutcomes \ {"ok"} :
        /\ orch.pc = "store"
        /\ edits + faults < MaxEvents
        /\ faults' = faults + 1
        /\ CacheResultAt(CurrentAgent, CurrentTask, orch.task_result, orch.timestamp, w)
        /\ orch' = [orch EXCEPT !.pc = "raised", !.error = "OSError"]
        /\ journal' = [journal EXCEPT !.calls = Append(@, "cache_result")]
        /\ UNCHANGED <<stores, harness_vars, peer>>

\* run_all, line 295: run_agent is called and never returns, its stream having stalled
RunPairStalls ==
    /\ orch.pc = "run"
    /\ orch' = [orch EXCEPT !.pc = "blocked"]
    /\ journal' = [journal EXCEPT !.calls = Append(@, "run_agent")]
    /\ UNCHANGED <<cache_vars, harness_vars, peer>>

\* run_all, lines 324-334: the summary of an agent's record after one more result
UpdateSummary(summary, task_result) ==
    [summary EXCEPT !.total = @ + 1, ![SummaryBucket(task_result)] = @ + 1]

\* run_all, lines 324-334, and the loop headers: the result is recorded, the summary
\* updated, and the next task or the next agent is taken
RecordPair ==
    LET task_id == bench[CurrentTask]["id"]
        old == orch.results[ResultKey]
        new == [tasks |-> [t \in DOMAIN old.tasks \cup {task_id} |->
                              IF t = task_id THEN orch.task_result ELSE old.tasks[t]],
                summary |-> UpdateSummary(old.summary, orch.task_result)]
        last == orch.j = Len(orch.benchmarks)
    IN  /\ orch.pc = "record"
        /\ orch' = [orch EXCEPT !.results[ResultKey] = new,
                                !.pc = IF last THEN "agent" ELSE "pair",
                                !.j = IF last THEN 1 ELSE orch.j + 1,
                                !.i = IF last THEN orch.i + 1 ELSE orch.i]
        /\ journal' = [journal EXCEPT !.processed = Append(@, <<CurrentAgent, CurrentTask>>),
                                      !.open = @ \ {<<CurrentAgent, CurrentTask>>}]
        /\ UNCHANGED <<cache_vars, harness_vars, peer>>

\* run_all, lines 336-349: the statistics are printed and the result set returned
FinishRunAll ==
    /\ orch.pc = "agent"
    /\ orch.i > Len(orch.agents)
    /\ orch' = [orch EXCEPT !.pc = "done"]
    /\ UNCHANGED <<journal, cache_vars, harness_vars, peer>>

\* BenchmarkRunner.__init__, line 32: a new process runs with a new CacheManager
NewRunner ==
    /\ orch.pc = "done"
    /\ \E a \in Agents : cache_data[a].loaded
    /\ cache_data' = [a \in Agents |-> NotLoaded(a)]
    /\ UNCHANGED <<artifact, bench, disk, ret, shadow, fresh, since_clear, edits, stores, faults>>
    /\ UNCHANGED <<harness_vars, run_all_vars, peer>>

\* the steps run_all takes by itself once called
RunAllStep ==
    \/ BeginAgent
    \/ LookupPair
    \/ ReuseCached
    \/ RunPair
    \/ EvaluatePair
    \/ StorePair
    \/ RecordPair
    \/ FinishRunAll

\* run_all is called on agent directories a.1 and a.2, whose names share a stem
StartRunAllDotted ==
    \E ignore_cache \in BOOLEAN :
        \E agent_listing \in Listings(Agents), task_listing \in Listings(TaskFiles) :
            StartRunAllNamed("dotted", ignore_cache, NoSelection, agent_listing, task_listing)

RunAllNext ==
    \/ StartRunAll
    \/ BeginAgent
    \/ LookupPair
    \/ ReuseCached
    \/ RunPair
    \/ EvaluatePair
    \/ StorePair
    \/ RecordPair
    \/ FinishRunAll
    \/ NewRunner

----------------------------------------------------------------------------
(* Specifications *)

Init ==
    /\ artifact = [a \in Agents |-> InitialArtifact]
    /\ bench = [s \in TaskFiles |-> InitialBenchmark(s)]
    /\ disk = [a \in Agents |-> MissingFile(a)]
    /\ cache_data = [a \in Agents |-> NotLoaded(a)]
    /\ ret = NoCall
    /\ shadow = [a \in Agents |-> [t \in TaskIds |-> AbsentShadow]]
    /\ fresh = [a \in Agents |-> [t \in TaskIds |-> FALSE]]
    /\ since_clear = NotCleared
    /\ edits = 0
    /\ stores = 0
    /\ faults = 0
    /\ run = IdleRun
    /\ clock = 0
    /\ sessions = <<>>
    /\ orch = IdleOrch
    /\ journal = NoJournal
    /\ peer = NoPeer

Lookup ==
    \E a \in Agents, s \in TaskFiles :
        /\ GetCachedResult(a, s)
        /\ UNCHANGED <<harness_vars, run_all_vars, peer>>

Next ==
    \/ Lookup
    \/ CacheResult
    \/ ClearCache
    \/ GetCacheStats
    \/ Restart
    \/ EditArtifact
    \/ EditTaskField
    \/ AddTaskField
    \/ RemoveTaskField

Spec == Init /\ [][Next]_vars

NextFault ==
    \/ Next
    \/ CacheResultFailing
    \/ ClearCacheFailing
    \/ DamageRecord

SpecFault == Init /\ [][NextFault]_vars

\* two CacheManager instances over one results directory: the load and store steps of
\* the first (a lookup loads; a store loads when nothing is loaded) and of the second
TwoManagersNext ==
    \/ Lookup
    \/ CacheResult
    \/ PeerLoad
    \/ PeerStore

SpecTwoManagers == Init /\ [][TwoManagersNext]_vars

\* the cache when an edit of an artifact or of a task file may be taken back
RestoreNext ==
    \/ Next
    \/ RestoreArtifact
    \/ RestoreTaskFile
SpecRestore == Init /\ [][RestoreNext]_vars

\* the cache when records written by other versions of the program turn up
CompatNext ==
    \/ Next
    \/ ForeignRecord
SpecCompat == Init /\ [][CompatNext]_vars

\* run_agent alone: invocations one after the other, the agent's stream and the clock
SpecHarness == Init /\ [][HarnessNext]_vars

\* run_agent takes its next step whenever it has one: asyncio.run drives the coroutine
\* until it is blocked on the stream
SpecHarnessLive == SpecHarness /\ WF_vars(HarnessStep)

\* run_all over the cache on a working file system, run after run
SpecRunAll == Init /\ [][RunAllNext]_vars

\* run_all over agent directories whose names share a stem
DottedNext ==
    \/ StartRunAllDotted
    \/ RunAllStep
SpecRunAllDotted == Init /\ [][DottedNext]_vars

\* run_all when a write of the cache may fail and an agent may stall
RunAllFaultNext ==
    \/ RunAllNext
    \/ StorePairFailing
    \/ RunPairStalls

\* run_all is a loop of a single thread: it takes its next step whenever it has one
SpecRunAllFault == Init /\ [][RunAllFaultNext]_vars /\ WF_vars(RunAllStep)

----------------------------------------------------------------------------
(* Properties of lookup and store *)

\* the partition a lookup on agent a has just used, and the entry it holds for the task
LookedUpEntryExists == bench[ret.task]["id"] \in DOMAIN cache_data[ret.agent].data.tasks
LookedUpEntry == cache_data[ret.agent].data.tasks[bench[ret.task]["id"]]
LookedUpShadow == shadow[ret.agent][bench[ret.task]["id"]]
LookedUpFresh == fresh[ret.agent][bench[ret.task]["id"]]

\* C1: get_cached_result returns the stored result if and only if the agent's
\* partition holds an entry for the task id whose stored agent_hash equals the hash of
\* the current agent.py and whose stored benchmark_hash equals the hash of the current
\* canonical task definition; in every other case it returns None.
C1_LookupIffBothHashesMatch ==
    ret.op = "lookup" =>
        LET valid == /\ LookedUpEntryExists
                     /\ LookedUpEntry.agent_hash = ComputeFileHash(artifact[ret.agent])
                     /\ LookedUpEntry.benchmark_hash = BenchmarkHash(bench[ret.task])
        IN  /\ cache_data[ret.agent].loaded
            /\ valid => ret.kind = "result" /\ ret.result = LookedUpEntry.result
            /\ ~valid => ret.kind = "none"

\* a lookup has served an entry whose two digests match
C1_Witness ==
    /\ ret.op = "lookup"
    /\ ret.kind = "result"
    /\ LookedUpEntryExists
    /\ LookedUpEntry.agent_hash = ComputeFileHash(artifact[ret.agent])
    /\ LookedUpEntry.benchmark_hash = BenchmarkHash(bench[ret.task])

\* C2: cache round trip: after a store for (agent, task), as long as neither the
\* artifact nor the task definition changed, no store for the pair followed and the
\* cache was not cleared, a lookup for the pair returns exactly the stored result.
C2_RoundTrip ==
    ret.op = "lookup" /\ LookedUpFresh =>
        /\ ret.kind = "result"
        /\ ret.result = LookedUpShadow.result

\* a lookup served a pair stored before the latest store, from a partition that a
\* new process has read back from its durable record
C2_Witness ==
    /\ ret.op = "lookup"
    /\ LookedUpFresh
    /\ ret.kind = "result"
    /\ LookedUpEntry.timestamp < stores
    /\ \E b \in Agents \ {ret.agent} : ~cache_data[b].loaded /\ disk[b].kind = "json"

\* C3 (state part): a lookup returns None for an entry stored with another content of
\* the agent's artifact, and still returns the stored result of an unchanged agent
\* while another agent's artifact has changed since that agent's store.
C3_StaleAgentInvalidated ==
    ret.op = "lookup" =>
        /\ LookedUpShadow.present /\ LookedUpShadow.content # artifact[ret.agent]
              => ret.kind = "none"
        /\ (/\ LookedUpFresh
            /\ \E b \in Agents \ {ret.agent}, t \in TaskIds :
                  shadow[b][t].present /\ shadow[b][t].content # artifact[b])
              => ret.kind = "result" /\ ret.result = LookedUpShadow.result

\* C3 (frame part): a lookup changes no durable record and no partition in memory
\* other than loading the partition of the agent it is about.
C3_LookupFrame ==
    ret'.op = "lookup" =>
        /\ disk' = disk
        /\ \A b \in Agents \ {ret'.agent} : cache_data'[b] = cache_data[b]
        /\ cache_data[ret'.agent].loaded => cache_data' = cache_data

\* C3: after the content of agent A's artifact changes, lookup returns None for every
\* entry stored for A, lookups for every other agent still return their stored results,
\* and the other agents' partitions are not modified.
C3_ArtifactChangeInvalidatesOnlyThatAgent ==
    [](C3_StaleAgentInvalidated) /\ [][C3_LookupFrame]_vars

\* a lookup refused an entry of an agent whose artifact changed, while the other agent
\* holds an entry that is still valid
C3_Witness ==
    /\ ret.op = "lookup"
    /\ ret.kind = "none"
    /\ LookedUpShadow.present
    /\ LookedUpShadow.content # artifact[ret.agent]
    /\ \E b \in Agents \ {ret.agent}, t \in TaskIds : fresh[b][t]

\* whether two task definitions differ in field k (in its presence or in its value)
DiffersIn(b1, b2, k) ==
    \/ (k \in DOMAIN b1) # (k \in DOMAIN b2)
    \/ k \in DOMAIN b1 /\ k \in DOMAIN b2 /\ b1[k] # b2[k]

\* C4: the task fingerprint covers every field: a lookup serves a task only when the
\* definition stored under its id agrees with the current one in every field, under
\* every agent, and a changed task leaves the entries of the other tasks served.
C4_AnyFieldChangeInvalidatesOnlyThatTask ==
    ret.op = "lookup" =>
        /\ ret.kind = "result" =>
              /\ LookedUpShadow.present
              /\ \A k \in Fields : ~DiffersIn(LookedUpShadow.def, bench[ret.task], k)
        /\ (/\ LookedUpFresh
            /\ \E s \in TaskFiles \ {ret.task}, a \in Agents, t \in TaskIds :
                  t \in IdChoices(s) /\ shadow[a][t].present /\ shadow[a][t].def # bench[s])
              => ret.kind = "result" /\ ret.result = LookedUpShadow.result

\* a lookup refused a task whose stored definition differs from the current one in a
\* field other than the query, the artifact being unchanged, while another task of the
\* same agent is still valid
C4_Witness ==
    /\ ret.op = "lookup"
    /\ ret.kind = "none"
    /\ LookedUpShadow.present
    /\ LookedUpShadow.content = artifact[ret.agent]
    /\ ~DiffersIn(LookedUpShadow.def, bench[ret.task], "query")
    /\ \E k \in Fields : DiffersIn(LookedUpShadow.def, bench[ret.task], k)
    /\ \E t \in TaskIds \ {bench[ret.task]["id"]} : fresh[ret.agent][t]

----------------------------------------------------------------------------
(* Properties of the summary and of persistence *)

\* the counts of a tasks map, taken entry set by entry set
CountWhere(tasks, errored, verdict) ==
    Cardinality({t \in DOMAIN tasks :
                    /\ Truthy(tasks[t].result.error) = errored
                    /\ errored \/ tasks[t].result.correct = verdict})

SummaryConsistent(p) ==
    /\ p.summary.total = Cardinality(DOMAIN p.tasks)
    /\ p.summary.errors = CountWhere(p.tasks, TRUE, TRUE)
    /\ p.summary.correct = CountWhere(p.tasks, FALSE, TRUE)
    /\ p.summary.incorrect = p.summary.total - p.summary.errors - p.summary.correct
    /\ p.summary.incorrect = CountWhere(p.tasks, FALSE, FALSE)
    /\ p.summary.correct + p.summary.incorrect + p.summary.errors = p.summary.total

\* C5: in every reachable state the summary of each agent partition, in memory and in
\* its durable record, equals the counts recomputed from its tasks map: errors are the
\* entries with a truthy error, correct the error-free entries with correct true,
\* incorrect the rest, total the number of entries, and the three buckets sum to total.
C5_SummaryConsistency ==
    \A a \in Agents :
        /\ SummaryConsistent(cache_data[a].data)
        /\ disk[a].kind = "json" => SummaryConsistent(disk[a].data)

\* a partition of two entries: one correct, one with an error and a correct verdict
C5_Witness ==
    \E a \in Agents :
        /\ cache_data[a].loaded
        /\ cache_data[a].data.summary = [total |-> 2, correct |-> 1, incorrect |-> 0, errors |-> 1]
        /\ \E t \in DOMAIN cache_data[a].data.tasks :
              /\ cache_data[a].data.tasks[t].result.correct
              /\ Truthy(cache_data[a].data.tasks[t].result.error)

\* C6: whenever cache_result returns, the durable record of that agent equals the
\* partition in memory (entries, summary, last_updated); and as long as no I/O fault
\* occurred, the durable records hold exactly the results stored so far.
C6_SynchronousPersistence ==
    /\ ret.op = "store" /\ ret.kind = "returned" =>
          /\ cache_data[ret.agent].loaded
          /\ disk[ret.agent] = JsonFile(cache_data[ret.agent].data)
          /\ cache_data[ret.agent].data.last_updated = stores
    /\ faults = 0 =>
          \A a \in Agents :
              LET stored == {t \in TaskIds : shadow[a][t].present}
              IN  IF stored = {} THEN disk[a].kind = "missing" \/ DOMAIN disk[a].data.tasks = {}
                  ELSE /\ disk[a].kind = "json"
                       /\ DOMAIN disk[a].data.tasks = stored
                       /\ \A t \in stored : disk[a].data.tasks[t].result = shadow[a][t].result

\* the second store of an agent has returned and its record holds both entries
C6_Witness ==
    /\ ret.op = "store"
    /\ ret.kind = "returned"
    /\ disk[ret.agent].kind = "json"
    /\ Cardinality(DOMAIN disk[ret.agent].data.tasks) = 2

\* the durable record of the agent of the last store holds the entry of that store
LastStoreIsDurable ==
    LET id == bench[ret.task]["id"]
    IN  /\ disk[ret.agent].kind = "json"
        /\ id \in DOMAIN disk[ret.agent].data.tasks
        /\ disk[ret.agent].data.tasks[id].timestamp = stores
        /\ disk[ret.agent].data.tasks[id].result = ret.result

\* C7: if the durable write fails during cache_result the failure is raised to the
\* caller: cache_result returns normally exactly when the partition with the new entry
\* has been written.
C7_WriteFailureIsRaised ==
    ret.op = "store" => (ret.kind = "returned" <=> LastStoreIsDurable)

\* a store raised because its write broke off, leaving a truncated record
C7_Witness ==
    /\ ret.op = "store"
    /\ ret.kind = "raise"
    /\ faults = 1
    /\ cache_data[ret.agent].loaded
    /\ disk[ret.agent].kind = "bad_json"

----------------------------------------------------------------------------
(* Properties of damaged records, stats and clear *)

\* C8: a durable record that cannot be parsed or read loads as an empty partition:
\* no lookup raises, and a store raises only when its own write failed (the partition
\* was loaded), never because the record could not be loaded.
C8_UnreadableRecordLoadsEmpty ==
    /\ ret.op = "lookup" => ret.kind # "raise"
    /\ ret.op = "store" /\ ret.kind = "raise" => cache_data[ret.agent].loaded

\* the part of C8 that the code keeps: a record that is no JSON text, or that the
\* operating system refuses to read, loads as the empty partition
C8_BadJsonLoadsEmpty ==
    ret.op = "lookup" /\ disk[ret.agent].kind \in {"bad_json", "unreadable"} =>
        /\ ret.kind # "raise"
        /\ cache_data[ret.agent].loaded

\* the number of entries of all durable records
DurableEntries ==
    Cardinality({p \in Agents \X TaskIds :
                    disk[p[1]].kind = "json" /\ p[2] \in DOMAIN disk[p[1]].data.tasks})

\* C9: in every reachable state get_cache_stats returns total_cached equal to the sum,
\* over all durable records, of their numbers of task entries, whatever is in memory.
C9_StatsCountsDurableEntries ==
    ret.op = "stats" => ret.kind = "returned" /\ ret.total = DurableEntries

\* the part of C9 that the code keeps: when get_cache_stats returns, it returns the
\* number of entries of the durable records
C9_StatsCountsWhenItReturns ==
    ret.op = "stats" /\ ret.kind = "returned" => ret.total = DurableEntries

NoEntryOf(a) ==
    /\ DOMAIN cache_data[a].data.tasks = {}
    /\ disk[a].kind = "json" => DOMAIN disk[a].data.tasks = {}

----------------------------------------------------------------------------
(* Properties of run_agent *)

ResultKeysOnFailure ==
    {"output", "execution_time", "success", "error", "input_tokens", "output_tokens"}

\* C11: run_agent never propagates a failure: whatever Exception is raised while the
\* agent is loaded, the session is created or the stream is consumed, the invocation
\* returns a well-formed result with success = false, output "" and str(e) as the
\* error, having loaded the agent once; only an interrupt of the process gets through.
C11_FailureBecomesResult ==
    /\ run.raised.class = "Exception" =>
          /\ run.pc = "returned"
          /\ DOMAIN run.result = ResultKeysOnFailure
          /\ run.result.success = FALSE
          /\ run.result.output = EmptyText
          /\ run.result.error = Str(run.raised)
          /\ run.loads = 1
    /\ run.pc = "propagated" => run.raised = KeyboardInterrupt

\* the stream raised after an event was consumed, and the invocation returned a failure
C11_Witness ==
    /\ run.pc = "returned"
    /\ run.raised_at = "stream"
    /\ Len(run.events) > 0
    /\ ~run.result.success

\* the invocation has run for longer than its timeout
TimedOut == InProgress /\ clock - run.start_time > DefaultTimeout

\* the invocation has returned a failure with empty output
ReturnedFailure ==
    /\ run.pc = "returned"
    /\ ~run.result.success
    /\ run.result.output = EmptyText

\* C12: an invocation that exceeds its timeout eventually returns a result with
\* success = false and empty output (unless the process is interrupted); it never
\* blocks forever.
C12_TimeoutEndsInvocation ==
    \A k \in 1..MaxInvocations :
        [](TimedOut /\ run.n = k =>
              <>(run.n = k /\ (ReturnedFailure \/ run.pc = "propagated")))

\* the part of C12 that the code keeps: no partial output is returned with a failure
C12_NoPartialOutput ==
    run.pc = "returned" /\ ~run.result.success => run.result.output = EmptyText

\* C13: when the load of the agent raises, whatever the exception, run_agent returns
\* success = false, output "" and a non-empty error text, and run_all counts the
\* task under errors.
C13_LoadFailureHasErrorText ==
    \A s \in TaskFiles :
        run.pc = "returned" /\ run.raised_at = "load" =>
            /\ run.result.success = FALSE
            /\ run.result.output = EmptyText
            /\ run.result.error # ""
            /\ SummaryBucket(TaskResultOf(run.result, bench[s])) = "errors"

\* the part of C13 that the code keeps: a load failure whose exception has a message
C13_LoadFailureWithMessage ==
    \A s \in TaskFiles :
        run.pc = "returned" /\ run.raised_at = "load" /\ Str(run.raised) # "" =>
            /\ run.result.success = FALSE
            /\ run.result.output = EmptyText
            /\ run.result.error # ""
            /\ SummaryBucket(TaskResultOf(run.result, bench[s])) = "errors"

\* the textual payloads of a part, of a content and of a stream, in order
PayloadOfPart(part) == part.text \o part.code_output
RECURSIVE PayloadOfParts(_)
PayloadOfParts(parts) ==
    IF parts = <<>> THEN EmptyText ELSE PayloadOfPart(Head(parts)) \o PayloadOfParts(Tail(parts))
PayloadOfEvent(event) ==
    IF event.content.kind = "str" THEN event.content.text
    ELSE PayloadOfParts(event.content.parts)
RECURSIVE PayloadOfStream(_)
PayloadOfStream(events) ==
    IF events = <<>> THEN EmptyText
    ELSE PayloadOfEvent(Head(events)) \o PayloadOfStream(Tail(events))

CompletedStream == run.pc = "returned" /\ run.raised = NoExc

Count0(n) == IF n = NoneCount THEN 0 ELSE n
RECURSIVE SumOver(_, _, _)
SumOver(events, f1, f2) ==
    IF events = <<>> THEN 0
    ELSE Count0(Head(events).usage_metadata[f1]) + Count0(Head(events).usage_metadata[f2])
         + SumOver(Tail(events), f1, f2)

\* C15: on a stream that completes, input_tokens is the sum over the events of
\* prompt_token_count + tool_use_prompt_token_count and output_tokens the sum of
\* candidates_token_count + thoughts_token_count, a missing record or field being 0.
C15_TokenTotals ==
    CompletedStream =>
        /\ run.result.input_tokens =
              SumOver(run.events, "prompt_token_count", "tool_use_prompt_token_count")
        /\ run.result.output_tokens =
              SumOver(run.events, "candidates_token_count", "thoughts_token_count")

\* a completed stream whose two events report different fields
C15_Witness ==
    /\ CompletedStream
    /\ Len(run.events) = 2
    /\ run.events[1].usage_metadata # run.events[2].usage_metadata
    /\ run.result.input_tokens = 2
    /\ run.result.output_tokens = 3

NoUsageReported == \A i \in DOMAIN run.events : ~run.events[i].usage_metadata.present

\* C16: the token counts of a result are absent (None) when no event of the run
\* carried usage metadata.
C16_NoUsageGivesAbsentCounts ==
    CompletedStream /\ NoUsageReported =>
        /\ run.result.input_tokens = NoneCount
        /\ run.result.output_tokens = NoneCount

\* the part of C16 that the code keeps: a failed run reports no token counts
C16_FailureGivesAbsentCounts ==
    run.pc = "returned" /\ ~run.result.success =>
        /\ run.result.input_tokens = NoneCount
        /\ run.result.output_tokens = NoneCount

\* C17: any two distinct invocations of run_agent use different session ids.
C17_SessionIdsUnique ==
    \A i, j \in DOMAIN sessions : i # j => sessions[i] # sessions[j]

----------------------------------------------------------------------------
(* Properties of run_all *)

Matrix == Agents \X TaskFiles

\* the pairs of the matrix, agents in ascending order of name and, for each agent, the
\* task files in ascending order of name
Precedes(p, q) ==
    \/ NameKey(p[1]) < NameKey(q[1])
    \/ p[1] = q[1] /\ NameKey(p[2]) < NameKey(q[2])
MatrixOrder ==
    CHOOSE seq \in Listings(Matrix) :
        \A i, j \in DOMAIN seq : i < j => Precedes(seq[i], seq[j])

IsPrefix(p, s) == Len(p) <= Len(s) /\ SubSeq(s, 1, Len(p)) = p

\* the pairs of the current run in that order: those of the loaded agents
InThisRun(p) == p[1] \in Range(orch.agents)
RunOrder == SelectSeq(MatrixOrder, InThisRun)

PairInProgress == orch.pc \in {"pair", "hit", "run", "evaluate", "store", "record"}

\* C18: run_all processes the matrix in a fixed order, agents ascending by name and
\* for each agent the task files in sorted order, every pair once, an agent's tasks
\* all before the next agent's.
C18_DeterministicOrder ==
    /\ IsPrefix(journal.processed, RunOrder)
    /\ PairInProgress =>
          <<CurrentAgent, CurrentTask>> = RunOrder[Len(journal.processed) + 1]
    /\ orch.pc = "done" => journal.processed = RunOrder
    /\ orch.pc = "done" /\ orch.selected_agent = NoSelection => RunOrder = MatrixOrder

\* a run has processed the whole matrix
C18_Witness ==
    /\ orch.pc = "done"
    /\ Len(journal.processed) = Cardinality(Matrix)
    /\ journal.processed[2] = <<"a1", "s2">>
    /\ journal.processed[3] = <<"a2", "s1">>

\* C19: with the cache not ignored, a pair starts with the lookup; on a hit the stored
\* result is reused, the hit counter goes up by one and neither run_agent nor
\* cache_result is called; on a miss run_agent, the evaluator and cache_result are
\* called once each in this order, the assembled record is what is stored, and the
\* miss counter goes up by one. At the end hits + misses is the number of pairs.
C19_PerPairProtocol ==
    /\ ~orch.ignore_cache /\ orch.pc = "record" /\ journal.hit =>
          /\ journal.calls = <<"lookup">>
          /\ ret.op = "lookup" /\ ret.kind = "result"
          /\ orch.task_result = ret.result
          /\ orch.cache_hits = journal.hits_before + 1
          /\ orch.cache_misses = journal.misses_before
    /\ ~orch.ignore_cache /\ orch.pc = "record" /\ ~journal.hit =>
          /\ journal.calls = <<"lookup", "run_agent", "evaluate_result", "cache_result">>
          /\ ret.op = "store" /\ ret.kind = "returned"
          /\ ret.result = orch.task_result
          /\ orch.task_result = TaskResultOf(orch.run_result, bench[CurrentTask])
          /\ disk[CurrentAgent].data.tasks[bench[CurrentTask]["id"]].result = orch.task_result
          /\ orch.cache_misses = journal.misses_before + 1
          /\ orch.cache_hits = journal.hits_before
    /\ ~orch.ignore_cache /\ PairInProgress /\ orch.pc # "pair" =>
          IsPrefix(journal.calls, IF journal.hit THEN <<"lookup">>
                   ELSE <<"lookup", "run_agent", "evaluate_result", "cache_result">>)
    /\ orch.pc = "done" => orch.cache_hits + orch.cache_misses = Len(RunOrder)

\* a second run over an unchanged cache has ended with a hit for every pair
C19_Witness ==
    /\ orch.pc = "done"
    /\ orch.run_no = 2
    /\ ~orch.ignore_cache
    /\ orch.cache_hits = Cardinality(Matrix)
    /\ orch.cache_misses = 0

\* the results of a record that carry a truthy error, or are error-free with a verdict
ResultsWhere(tasks, errored, verdict) ==
    {t \in DOMAIN tasks :
        /\ Truthy(tasks[t].error) = errored
        /\ errored \/ tasks[t].correct = verdict}

\* the agents whose tasks are all done in the current run
FinishedAgents ==
    {orch.agents[k] : k \in {n \in DOMAIN orch.agents : n < orch.i \/ orch.pc = "done"}}

\* C20: every processed result is counted in exactly one bucket of its agent's summary,
\* errors when it carries a truthy error whatever its verdict, else correct or
\* incorrect by its verdict; total is the sum of the buckets, and the number of tasks
\* when the agent is finished.
C20_RunSummaryBuckets ==
    \A a \in DOMAIN orch.results :
        LET r == orch.results[a]
        IN  /\ r.summary.errors = Cardinality(ResultsWhere(r.tasks, TRUE, TRUE))
            /\ r.summary.correct = Cardinality(ResultsWhere(r.tasks, FALSE, TRUE))
            /\ r.summary.incorrect = Cardinality(ResultsWhere(r.tasks, FALSE, FALSE))
            /\ r.summary.total = r.summary.correct + r.summary.incorrect + r.summary.errors
            /\ r.summary.total = Cardinality(DOMAIN r.tasks)
            /\ a \in FinishedAgents => r.summary.total = Len(orch.benchmarks)

\* a finished run in which one agent has a result in each of two buckets and the
\* other agent has an error
C20_Witness ==
    /\ orch.pc = "done"
    /\ DOMAIN orch.results = Agents
    /\ orch.results["a1"].summary = [total |-> 2, correct |-> 1, incorrect |-> 1, errors |-> 0]
    /\ orch.results["a2"].summary.errors = 1

----------------------------------------------------------------------------
(* Properties of run_all across runs *)

\* what a lookup of the pair finds in the durable record of the agent
DurableLookup(a, s) ==
    IF disk[a].kind = "json" THEN LookupIn(disk[a].data, artifact[a], bench[s])
    ELSE [kind |-> "none", result |-> NoResult]

\* the pair was given a result by the run before this one
RanBefore(a, s) ==
    /\ journal.previous.ended = "done"
    /\ a \in DOMAIN journal.previous.results
    /\ journal.previous.bench[s]["id"] \in DOMAIN journal.previous.results[a].tasks
PreviousResult(a, s) ==
    journal.previous.results[a].tasks[journal.previous.bench[s]["id"]]

\* the artifact of the agent and the task file are what they were in the run before
UnchangedSincePrevious(a, s) ==
    /\ journal.previous.artifact[a] = artifact[a]
    /\ journal.previous.bench[s] = bench[s]

\* the artifact of the agent and the task file are what they were when this run started
UnchangedSinceStart(a, s) ==
    /\ journal.artifact[a] = artifact[a]
    /\ journal.bench[s] = bench[s]

\* C21: in a run that ignores the cache no pair is a hit: for every pair run_agent, the
\* evaluator and cache_result are called, without a lookup, and the fresh result is
\* stored. When the run has ended every pair's durable entry holds the result of this
\* run, and a lookup finds it as long as the pair is not edited; in the run that
\* follows, if it uses the cache and the pair is unchanged, the pair is a hit with that
\* result.
C21_IgnoreCacheOverwrites ==
    /\ orch.ignore_cache => orch.cache_hits = 0
    /\ orch.ignore_cache /\ orch.pc = "record" =>
          /\ journal.calls = <<"run_agent", "evaluate_result", "cache_result">>
          /\ ret.op = "store" /\ ret.kind = "returned" /\ ret.result = orch.task_result
          /\ orch.task_result = TaskResultOf(orch.run_result, bench[CurrentTask])
          /\ orch.cache_misses = journal.misses_before + 1
    /\ orch.ignore_cache /\ orch.pc = "done" =>
          /\ orch.cache_misses = Len(RunOrder)
          /\ \A p \in Range(RunOrder) :
                LET id == journal.bench[p[2]]["id"]
                IN  /\ disk[p[1]].kind = "json"
                    /\ id \in DOMAIN disk[p[1]].data.tasks
                    /\ disk[p[1]].data.tasks[id].result = orch.results[p[1]].tasks[id]
                    /\ UnchangedSinceStart(p[1], p[2]) =>
                          /\ DurableLookup(p[1], p[2]).kind = "result"
                          /\ DurableLookup(p[1], p[2]).result = orch.results[p[1]].tasks[id]
    /\ /\ ~orch.ignore_cache /\ orch.pc = "record"
       /\ journal.previous.ignore_cache
       /\ RanBefore(CurrentAgent, CurrentTask)
       /\ UnchangedSincePrevious(CurrentAgent, CurrentTask)
       => /\ journal.hit
          /\ orch.task_result = PreviousResult(CurrentAgent, CurrentTask)

\* a run that ignored the cache has ended after replacing an entry of the other verdict
C21_Witness ==
    /\ orch.pc = "done"
    /\ orch.ignore_cache
    /\ orch.run_no = 2
    /\ journal.replaced
    /\ orch.cache_misses = Cardinality(Matrix)

\* a run that used the cache has ended with only hits after a run that ignored it
C21_FollowingRunWitness ==
    /\ orch.pc = "done"
    /\ ~orch.ignore_cache
    /\ journal.previous.ended = "done" /\ journal.previous.ignore_cache
    /\ orch.cache_hits = Cardinality(Matrix)

\* the call has an empty agent directory, an empty task directory or a filter that
\* names no agent directory
BadConfiguration(selected_agent, agent_source, task_source) ==
    \/ agent_source = {}
    \/ task_source = {}
    \/ selected_agent # NoSelection /\ selected_agent \notin agent_source

\* C22: a call of run_all with an empty agent source, an empty task source or a filter
\* naming an unknown agent raises before anything is executed: no lookup, no run_agent,
\* no store, an empty result set, and every partition, in memory and durable, as it was.
C22_ConfigErrorAbortsBeforeExecution ==
    [][\A ignore_cache \in BOOLEAN, selected_agent \in Selections,
         agent_source \in AgentSources, task_source \in TaskSources :
          \A agent_listing \in Listings(agent_source), task_listing \in Listings(task_source) :
              /\ BadConfiguration(selected_agent, agent_source, task_source)
              /\ StartRunAllWith(ignore_cache, selected_agent, agent_listing, task_listing)
              => /\ orch'.pc = "raised" /\ orch'.error # NoneError
                 /\ orch'.results = [a \in {} |-> EmptyAgentResults]
                 /\ orch'.cache_hits = 0 /\ orch'.cache_misses = 0
                 /\ journal'.calls = <<>> /\ journal'.processed = <<>> /\ journal'.open = {}
                 /\ UNCHANGED <<disk, cache_data, ret, shadow, stores>>]_vars

\* a raised call stays raised: nothing of run_all runs until the next call
C22_NothingRunsAfterTheError ==
    orch.pc = "raised" /\ orch.error # NoneError =>
        /\ orch.results = [a \in {} |-> EmptyAgentResults]
        /\ journal.calls = <<>> /\ journal.processed = <<>>

\* the second call named an unknown agent and raised, with entries of the first run in
\* the durable records
C22_Witness ==
    /\ orch.pc = "raised"
    /\ orch.error = "Unknown agent"
    /\ orch.run_no = 2
    /\ \A a \in Agents : disk[a].kind = "json" /\ DOMAIN disk[a].data.tasks # {}

\* C23 (state part): a call of run_all with a filter that names a known agent runs that agent only:
\* it is the only agent loaded, every pair processed is one of its pairs, the result
\* set of the finished run holds this agent and no other, with a result for each task,
\* and no step of the run changes another agent's partition, in memory or durable.
C23_OnlySelectedAgentRuns ==
    orch.selected_agent # NoSelection /\ orch.pc # "raised" =>
        /\ orch.agents = <<orch.selected_agent>>
        /\ DOMAIN orch.results \subseteq {orch.selected_agent}
        /\ \A p \in Range(journal.processed) \cup journal.open : p[1] = orch.selected_agent
        /\ orch.pc = "done" =>
              /\ DOMAIN orch.results = {orch.selected_agent}
              /\ Len(journal.processed) = Len(orch.benchmarks)
              /\ DOMAIN orch.results[orch.selected_agent].tasks =
                    {bench[s]["id"] : s \in Range(orch.benchmarks)}

\* no step of a filtered run changes the partition of an agent it does not name
C23_OtherPartitionsUntouched ==
    orch' # orch /\ orch'.selected_agent # NoSelection =>
        \A b \in Agents \ {orch'.selected_agent} :
            disk'[b] = disk[b] /\ cache_data'[b] = cache_data[b]

\* C23 (both parts): a filter naming a known agent restricts the matrix and the result
\* set to that agent and leaves every other agent's partition as it was.
C23_FilterRestrictsMatrix ==
    [](C23_OnlySelectedAgentRuns) /\ [][C23_OtherPartitionsUntouched]_vars

\* a second run filtered to a1 has executed and stored a1's pairs again while the
\* durable record of a2 holds the entries of the first run
C23_Witness ==
    /\ orch.pc = "done"
    /\ orch.run_no = 2
    /\ orch.selected_agent = "a1"
    /\ orch.cache_misses = Cardinality(TaskFiles)
    /\ disk["a2"].kind = "json" /\ Cardinality(DOMAIN disk["a2"].data.tasks) = 2

\* this run and the one before it use the cache, have the same filter, and no artifact
\* and no task file was edited in between
RepeatsPreviousRun ==
    /\ orch.pc \notin {"idle", "raised"}
    /\ ~orch.ignore_cache
    /\ journal.previous.ended = "done"
    /\ ~journal.previous.ignore_cache
    /\ journal.previous.selected_agent = orch.selected_agent
    /\ \A a \in Agents, s \in TaskFiles : UnchangedSincePrevious(a, s)

\* C24: when run_all is called twice with the cache in use and agents, artifacts and
\* tasks unchanged, the second run is all hits: every pair is a hit whose only call is
\* the lookup, run_agent is never called, misses stay 0, and at the end hits is the
\* number of pairs and every agent's tasks and summary equal those of the first run.
C24_SecondRunIsAllHits ==
    RepeatsPreviousRun =>
        /\ orch.cache_misses = 0
        /\ orch.pc \notin {"run", "evaluate", "store"}
        /\ orch.pc = "record" => journal.hit /\ journal.calls = <<"lookup">>
        /\ orch.pc = "done" =>
              /\ orch.cache_hits = Len(RunOrder)
              /\ DOMAIN orch.results = DOMAIN journal.previous.results
              /\ \A a \in DOMAIN orch.results :
                    /\ orch.results[a].summary = journal.previous.results[a].summary
                    /\ orch.results[a].tasks = journal.previous.results[a].tasks

\* the second of two such runs has ended; the first had a correct, an incorrect and an
\* errored result
C24_Witness ==
    /\ RepeatsPreviousRun
    /\ orch.pc = "done"
    /\ orch.selected_agent = NoSelection
    /\ orch.results["a1"].summary = [total |-> 2, correct |-> 1, incorrect |-> 1, errors |-> 0]
    /\ orch.results["a2"].summary.errors = 1

\* the matrix of the current run has started and not ended; it has ended with a result
\* for every pair
MatrixStarted == orch.pc \in {"agent", "pair", "hit", "run", "evaluate", "store", "record",
                              "blocked"}
MatrixCompleted ==
    /\ orch.pc = "done"
    /\ journal.processed = RunOrder
    /\ \A p \in Range(RunOrder) : bench[p[2]]["id"] \in DOMAIN orch.results[p[1]].tasks

\* C25: once the matrix of a run has started, the run eventually completes with a
\* result for every pair, whatever fails for a single task.
C25_RunAlwaysCompletes ==
    \A k \in 1..MaxRuns :
        (MatrixStarted /\ orch.run_no = k) ~> (MatrixCompleted /\ orch.run_no = k)

\* a failure that run_agent returns as a result never ends the run: the result is
\* stored and recorded and the next pair is taken
C25_ReturnedFailureIsRecorded ==
    orch.pc = "record" /\ ~orch.run_result.success /\ ~journal.hit /\ ~orch.ignore_cache =>
        /\ orch.task_result = TaskResultOf(orch.run_result, bench[CurrentTask])
        /\ journal.calls = <<"lookup", "run_agent", "evaluate_result", "cache_result">>

\* run_all never raises the error of a failed write
C25_FailedStoreIsSurvived == ~(orch.pc = "raised" /\ orch.error = "OSError")

\* the result recorded for a processed pair is the one its durable entry holds
Persisted(p) ==
    LET id == bench[p[2]]["id"]
    IN  /\ disk[p[1]].kind = "json"
        /\ id \in DOMAIN disk[p[1]].data.tasks
        /\ disk[p[1]].data.tasks[id].result = orch.results[p[1]].tasks[id]

\* C26: run_all is strictly sequential: at most one pair is in progress, it is the
\* pair the loops stand at, and when the lookup of a pair is about to begin no pair is
\* in progress, every pair processed so far has its result in the durable record, and
\* every partition in memory is what its file holds.
C26_StrictlySequential ==
    /\ Cardinality(journal.open) <= 1
    /\ journal.open # {} => PairInProgress /\ journal.open = {<<CurrentAgent, CurrentTask>>}
    /\ orch.pc \in {"pair", "agent", "done"} =>
          /\ journal.open = {}
          /\ \A p \in Range(journal.processed) : Persisted(p)
          /\ \A a \in Agents : cache_data[a].loaded => disk[a] = JsonFile(cache_data[a].data)

\* the last pair of a run is about to be looked up after three pairs were executed
\* and stored
C26_Witness ==
    /\ orch.pc = "pair"
    /\ Len(journal.processed) = 3
    /\ orch.cache_misses = 3
    /\ ~orch.ignore_cache

\* the pair in progress was given, by the run before, the result of a failed
\* execution, and nothing it depends on has changed since
FailedBefore ==
    /\ ~orch.ignore_cache /\ orch.pc = "record"
    /\ RanBefore(CurrentAgent, CurrentTask)
    /\ UnchangedSincePrevious(CurrentAgent, CurrentTask)
    /\ PreviousResult(CurrentAgent, CurrentTask).error # NoneError

\* C28: a pair whose execution failed in the run before is, in a run that uses the
\* cache with agent and task unchanged, a hit that is not executed again, and its
\* result is counted under errors again.
C28_FailureIsCachedAsError ==
    FailedBefore =>
        /\ journal.hit /\ journal.calls = <<"lookup">>
        /\ orch.task_result = PreviousResult(CurrentAgent, CurrentTask)
        /\ SummaryBucket(orch.task_result) = "errors"

\* the failed execution is a hit with the stored record and is counted as it was
\* counted the first time
C28_FailureIsCached ==
    FailedBefore =>
        /\ journal.hit /\ journal.calls = <<"lookup">>
        /\ orch.task_result = PreviousResult(CurrentAgent, CurrentTask)
        /\ ~orch.task_result.correct
        /\ SummaryBucket(orch.task_result) =
              IF Truthy(orch.task_result.error) THEN "errors" ELSE "incorrect"

\* a failure whose exception had a message is counted under errors in the later run
C28_FailureWithMessageReached ==
    FailedBefore /\ SummaryBucket(orch.task_result) = "errors"

----------------------------------------------------------------------------
(* Properties of the cache on records of other versions *)

RECURSIVE SumOfEntries(_)
SumOfEntries(todo) ==
    IF todo = {} THEN 0
    ELSE LET a == CHOOSE x \in todo : TRUE
         IN  (IF disk[a].kind = "json" THEN Cardinality(DOMAIN TasksOf(disk[a].data)) ELSE 0)
             + SumOfEntries(todo \ {a})

\* after a call no call has failed; a lookup returns a result only from an entry that
\* has both digests, equal to the current ones, and a result; a partition without a
\* tasks field gives no result; the stats count such a record as holding no entries
C27_CallsOnForeignRecords ==
    LET a == ret.agent
        id == bench[ret.task]["id"]
        tasks == TasksOf(cache_data[a].data)
    IN  /\ ret.kind # "raise"
        /\ ret.op = "lookup" /\ ret.kind = "result" =>
              /\ id \in DOMAIN tasks
              /\ OptionalEntryFields \subseteq DOMAIN tasks[id]
              /\ tasks[id].agent_hash = ComputeFileHash(artifact[a])
              /\ tasks[id].benchmark_hash = BenchmarkHash(bench[ret.task])
              /\ ret.result = tasks[id].result
        /\ ret.op = "lookup" /\ "tasks" \notin DOMAIN cache_data[a].data => ret.kind = "none"
        /\ ret.op = "stats" => ret.total = SumOfEntries(Agents)

\* a store on a partition without a tasks field leaves a partition whose only entry
\* is the one stored, counted in its summary, and writes it
C27_StoreOnMissingTasks ==
    stores' = stores + 1 /\ "tasks" \notin DOMAIN LoadAgentCache(ret'.agent).data =>
        LET data == cache_data'[ret'.agent].data
        IN  /\ ret'.kind = "returned"
            /\ DOMAIN data.tasks = {bench[ret'.task]["id"]}
            /\ data.tasks[bench[ret'.task]["id"]].result = ret'.result
            /\ data.summary.total = 1
            /\ disk'[ret'.agent] = JsonFile(data)

\* C27: on a parseable record with an unknown or missing cache_version or with a
\* missing field (tasks, summary, last_updated, an entry's agent_hash, benchmark_hash
\* or result) lookup, store and stats do not fail; a missing tasks field behaves as
\* no entries, and an entry with a missing digest is never served.
C27_ForeignRecordsAreTolerated ==
    [](C27_CallsOnForeignRecords) /\ [][C27_StoreOnMissingTasks]_vars

\* a lookup has found, for an unchanged agent and task, the entry a store wrote, now
\* without its agent_hash, and returned nothing
C27_Witness ==
    LET id == bench[ret.task]["id"]
        tasks == TasksOf(cache_data[ret.agent].data)
    IN  /\ ret.op = "lookup" /\ ret.kind = "none"
        /\ id \in DOMAIN tasks
        /\ "agent_hash" \notin DOMAIN tasks[id]
        /\ tasks[id].benchmark_hash = BenchmarkHash(bench[ret.task])
        /\ shadow[ret.agent][id].present
        /\ shadow[ret.agent][id].content = artifact[ret.agent]

\* a store has been made on a partition read from a record without a tasks field
C27_MissingTasksWitness ==
    /\ ret.op = "store" /\ ret.kind = "returned"
    /\ faults = 1
    /\ "cache_version" \in DOMAIN cache_data[ret.agent].data
    /\ Cardinality(DOMAIN cache_data[ret.agent].data.tasks) = 1
    /\ \E t \in TaskIds \ DOMAIN cache_data[ret.agent].data.tasks : shadow[ret.agent][t].present

----------------------------------------------------------------------------
(* Properties of the cache over time *)

\* the ids of the task files as they are now
CurrentTaskIds == {bench[s]["id"] : s \in TaskFiles}

\* every entry of a partition is counted in its summary, and the stats count every
\* entry of every durable record, whether or not a lookup would still serve it
C29_EveryEntryIsCounted ==
    /\ \A a \in Agents :
          /\ disk[a].kind = "json" =>
                disk[a].data.summary.total = Cardinality(DOMAIN disk[a].data.tasks)
          /\ cache_data[a].data.summary.total = Cardinality(DOMAIN cache_data[a].data.tasks)
    /\ ret.op = "stats" => ret.total = SumOfEntries(Agents)

\* no step other than clear_cache takes an entry out of a partition, in memory or
\* durable
C29_NoStepPrunes ==
    ret'.op # "clear" =>
        \A a \in Agents :
            /\ disk[a].kind = "json" =>
                  /\ disk'[a].kind = "json"
                  /\ DOMAIN disk[a].data.tasks \subseteq DOMAIN disk'[a].data.tasks
            /\ cache_data[a].loaded /\ cache_data'[a].loaded =>
                  DOMAIN cache_data[a].data.tasks \subseteq DOMAIN cache_data'[a].data.tasks

\* C29: entries are never pruned except by clear_cache: across lookups and stores the
\* task ids of a partition only grow, and stale entries and entries of tasks that no
\* longer exist stay and are counted in the partition's summary and in the stats.
C29_EntriesOnlyGrow ==
    [](C29_EveryEntryIsCounted) /\ [][C29_NoStepPrunes]_vars

\* the stats have counted two entries of one agent, one of them under an id that no
\* task file carries any more
C29_Witness ==
    /\ ret.op = "stats" /\ ret.total = 2
    /\ \E a \in Agents :
          /\ disk[a].kind = "json"
          /\ Cardinality(DOMAIN disk[a].data.tasks) = 2
          /\ disk[a].data.summary.total = 2
          /\ DOMAIN disk[a].data.tasks \ CurrentTaskIds # {}

\* C30: whether an entry is served depends on the current contents only, never on what
\* happened in between: a lookup returns the result of the pair's latest store exactly
\* when the artifact and the task definition are now what they were at that store,
\* also after they were changed and restored, and whether or not a lookup missed in
\* between.
C30_ValidityIsHistoryIndependent ==
    ret.op = "lookup" /\ LookedUpShadow.present =>
        IF LookedUpShadow.content = artifact[ret.agent] /\ LookedUpShadow.def = bench[ret.task]
        THEN ret.kind = "result" /\ ret.result = LookedUpShadow.result
        ELSE ret.kind = "none"

\* a lookup has served an entry whose artifact or task file was changed after the
\* store and has its first content again
C30_Witness ==
    /\ ret.op = "lookup" /\ ret.kind = "result"
    /\ LookedUpShadow.present
    /\ ~LookedUpFresh
    /\ edits = 1
    /\ artifact = [a \in Agents |-> InitialArtifact]
    /\ bench = [s \in TaskFiles |-> InitialBenchmark(s)]

----------------------------------------------------------------------------
(* Properties of one store *)

\* C31: a call of cache_result for agent A and task T leaves every other agent's
\* partition in memory and durable record as they were; in A's partition every entry
\* but T's keeps its digests, timestamp and result, no entry goes and only T's may
\* come, agent_name and cache_version stay; and when the call returns A's durable
\* record is that partition.
C31_StoreChangesOnlyItsEntry ==
    stores' = stores + 1 =>
        LET a == ret'.agent
            id == bench[ret'.task]["id"]
            before == LoadAgentCache(a)
            after == cache_data'[a].data
        IN  /\ \A b \in Agents \ {a} : disk'[b] = disk[b] /\ cache_data'[b] = cache_data[b]
            /\ before.raised => disk' = disk /\ cache_data' = cache_data
            /\ ~before.raised =>
                  /\ DOMAIN after.tasks = DOMAIN before.data.tasks \cup {id}
                  /\ \A t \in DOMAIN before.data.tasks \ {id} :
                        after.tasks[t] = before.data.tasks[t]
                  /\ after.agent_name = before.data.agent_name
                  /\ after.cache_version = before.data.cache_version
                  /\ after.last_updated = stores'
            /\ ret'.kind = "returned" => disk'[a] = JsonFile(after)

\* C31 as a property of every step: the frame of a store
C31_StoreFrame == [][C31_StoreChangesOnlyItsEntry]_vars

\* the second store has returned: its agent holds the entry of the first store, with
\* the first timestamp and another result, next to the new one
C31_Witness ==
    /\ ret.op = "store" /\ ret.kind = "returned"
    /\ stores = 2
    /\ disk[ret.agent].kind = "json"
    /\ \E t \in DOMAIN disk[ret.agent].data.tasks \ {bench[ret.task]["id"]} :
          /\ disk[ret.agent].data.tasks[t].timestamp = 1
          /\ disk[ret.agent].data.tasks[t].result # ret.result

\* the partition of the agent in memory is what a new process would read from the
\* durable record
MemoryEqualsDurable(a) ==
    cache_data[a].loaded =>
        /\ ~ReadRecord(a, disk[a]).raised
        /\ cache_data[a].data = ReadRecord(a, disk[a]).data

\* C32: a store whose durable write failed leaves the cache as it was: the partition
\* in memory equals the durable one, and a lookup returns only results that a store
\* has written.
C32_FailedStoreChangesNothing ==
    /\ ret.op = "store" /\ ret.kind = "raise" => MemoryEqualsDurable(ret.agent)
    /\ ret.op = "lookup" /\ ret.kind = "result" =>
          /\ LookedUpShadow.present
          /\ ret.result = LookedUpShadow.result

\* a lookup has returned a result that no completed store wrote
C32_UnpersistedResultServed ==
    ~(/\ ret.op = "lookup" /\ ret.kind = "result"
      /\ faults = 1
      /\ ~LookedUpShadow.present)

----------------------------------------------------------------------------
(* Properties of the result set *)

\* the agents whose tasks the current run has all processed
AgentsProcessed == {orch.agents[k] : k \in {n \in DOMAIN orch.agents : n < orch.i}}

\* C33: the result set of run_all holds one record per agent of the matrix, none for
\* another, and the record of each agent processed holds one result per task and a
\* summary whose total is the number of tasks; at the end the records are as many as
\* the agents, and the record of an agent is not replaced when the next agent begins.
C33_OneRecordPerAgent ==
    orch.pc \notin {"idle", "raised"} =>
        /\ Cardinality(DOMAIN orch.results) =
              Cardinality(AgentsProcessed \cup (IF PairInProgress THEN {CurrentAgent} ELSE {}))
        /\ orch.pc = "done" => Cardinality(DOMAIN orch.results) = Len(orch.agents)
        /\ \A a \in AgentsProcessed :
              LET key == Stem(DirName(orch.naming, a))
              IN  /\ key \in DOMAIN orch.results
                  /\ DOMAIN orch.results[key].tasks = {bench[s]["id"] : s \in Range(orch.benchmarks)}
                  /\ orch.results[key].summary.total = Len(orch.benchmarks)
                  /\ \A s \in Range(orch.benchmarks) :
                        orch.ignore_cache \/ DurableLookup(a, s).kind = "result" =>
                            DurableLookup(a, s).result = orch.results[key].tasks[bench[s]["id"]]

\* a run over two agents has ended with a record for each
C33_PlainNamesWitness ==
    /\ orch.pc = "done"
    /\ orch.naming = "plain"
    /\ Len(orch.agents) = 2
    /\ DOMAIN orch.results = Agents

----------------------------------------------------------------------------
(* Properties of two instances over one results directory *)

\* the durable partition of agent a holds an entry for task t with this result
DurablyHolds(a, t, result) ==
    /\ disk[a].kind = "json"
    /\ t \in DOMAIN TasksOf(disk[a].data)
    /\ GetOr(TasksOf(disk[a].data)[t], "result", NoResult) = result

\* each instance completed a store for one task of agent a that the other did not
\* store for: the first for t1, the second for t2
EachStoredItsTask(a, t1, t2) ==
    /\ t1 # t2
    /\ shadow[a][t1].present /\ ~peer.stored[a][t1].present
    /\ peer.stored[a][t2].present /\ ~shadow[a][t2].present

\* C34: no lost update between cache instances: when two CacheManager instances over
\* the same results directory have each stored a result for a different task of the
\* same agent, in whatever order their load and store steps ran, the durable partition
\* holds both entries, each with the result stored, and a summary that agrees with
\* its entries.
C34_NoLostUpdate ==
    \A a \in Agents, t1, t2 \in TaskIds :
        EachStoredItsTask(a, t1, t2) =>
            /\ DurablyHolds(a, t1, shadow[a][t1].result)
            /\ DurablyHolds(a, t2, peer.stored[a][t2].result)
            /\ SummaryConsistent(disk[a].data)

\* the stores of the two instances ran one after the other, the later one on a
\* partition read after the earlier write: both entries are durable
C34_BothKeptWhenSerialized ==
    \E a \in Agents, t1, t2 \in TaskIds :
        /\ EachStoredItsTask(a, t1, t2)
        /\ DurablyHolds(a, t1, shadow[a][t1].result)
        /\ DurablyHolds(a, t2, peer.stored[a][t2].result)
        /\ SummaryConsistent(disk[a].data)

====
